---- MODULE Spec2Model ----
(***************************************************************************)
(* Model of app/pdf_processor.py (anonymize_pdf), of app/main.py           *)
(* (process_pdf, the handler of /api/process, and its temporary files),    *)
(* and of app/mistral_analyzer.py (extract_text_from_pdf,                  *)
(* analyze_document).                                                      *)
(*                                                                         *)
(* Strings on which the code computes (split, replace, key formatting,     *)
(* startswith, substring search) are sequences of one-character strings.  *)
(* A page is a single line of text; character i occupies the horizontal   *)
(* interval [i-1, i].  Font sizes are kept in hundredths of a point and    *)
(* insertion points in thousandths, so that 0.85 and 0.8 stay exact.       *)
(***************************************************************************)
EXTENDS Integers, Sequences, FiniteSets, TLC

\* ------------------------------------------------------------------ bounds
MaxPages == 2
MaxRecords == 2
MaxBlocks == 2
MaxSize == 12
MaxHeight == 24
MaxExcess == 2
MaxLines == 3
LongPages == 11
MaxRequests == 2
MaxWorkers == 2
MaxClock == 1

\* ------------------------------------------------------- string helpers
SP == " "

RECURSIVE SplitFrom(_, _, _)
\* str.split(): the maximal runs of non-whitespace characters of s, in order.
\* i is the next index to read, cur the token being built.
SplitFrom(s, i, cur) ==
    IF i > Len(s)
    THEN IF cur = <<>> THEN <<>> ELSE <<cur>>
    ELSE IF s[i] = SP
         THEN IF cur = <<>>
              THEN SplitFrom(s, i + 1, <<>>)
              ELSE <<cur>> \o SplitFrom(s, i + 1, <<>>)
         ELSE SplitFrom(s, i + 1, Append(cur, s[i]))

Split(s) == SplitFrom(s, 1, <<>>)

\* str.replace("-", "")
RemoveDash(s) == SelectSeq(s, LAMBDA c : c # "-")

Digits == <<"0", "1", "2", "3", "4", "5", "6", "7", "8", "9">>

RECURSIVE NatStr(_)
NatStr(n) == IF n < 10 THEN <<Digits[n + 1]>>
             ELSE NatStr(n \div 10) \o <<Digits[(n % 10) + 1]>>

\* str(int) as done by an f-string
IntStr(n) == IF n < 0 THEN <<"-">> \o NatStr(0 - n) ELSE NatStr(n)

\* str(float) of a whole-valued coordinate, e.g. 4.0
FloatStr(n) == IntStr(n) \o <<".", "0">>

\* str.startswith
StartsWith(s, p) == Len(p) <= Len(s) /\ SubSeq(s, 1, Len(p)) = p

\* ------------------------------------------------------------- JSON values
\* A value of the oracle's JSON: t is "str", "int", "null", or "absent" when
\* the key is not in the object.
JStr(s) == [t |-> "str", s |-> s, i |-> 0]
JInt(i) == [t |-> "int", s |-> <<>>, i |-> i]
JNull == [t |-> "null", s |-> <<>>, i |-> 0]
JAbsent == [t |-> "absent", s |-> <<>>, i |-> 0]

\* dict.get(key, default)
Get(element, key, default) ==
    IF element[key].t = "absent" THEN default ELSE element[key]

\* ------------------------------------------------------------- geometry
\* fitz.Rect as <<x0, y0, x1, y1>>
X0(r) == r[1]
Y0(r) == r[2]
X1(r) == r[3]
Y1(r) == r[4]

Max2(a, b) == IF a >= b THEN a ELSE b
Min2(a, b) == IF a <= b THEN a ELSE b

\* fitz.Rect.intersects: the two rectangles share a non-empty area
Intersects(r, q) ==
    /\ Max2(X0(r), X0(q)) < Min2(X1(r), X1(q))
    /\ Max2(Y0(r), Y0(q)) < Min2(Y1(r), Y1(q))

\* ------------------------------------------------------------ program text
PLACEHOLDER == <<"X", "X", "X", "X", "X">>
HELV == <<"h", "e", "l", "v">>
TIMES_ROMAN == <<"T", "i", "m", "e", "s", "-", "R", "o", "m", "a", "n">>
ATTRIBUTION == "holomask https://holofin.ai"
NameTypes == {"Person Name", "Client Name"}

\* --------------------------------------------------------------- documents
ROBOTO == <<"R", "-", "B">>

\* A page as the document library presents it: its text, its text runs in
\* block/line/span order (get_text("dict")), the height of its line and its
\* font list
\* (get_fonts(full=True), tuples of which [3] is the base font name and [4]
\* the reference name).
PageA ==
    [text  |-> <<"a", " ", "b", " ", "a">>, height |-> 20,
     spans |-> << [bbox |-> <<0, 0, 3, 12>>, font |-> JStr(ROBOTO),
                   size |-> JInt(10), color |-> JInt(255)],
                  [bbox |-> <<4, 0, 5, 20>>, font |-> JStr(TIMES_ROMAN),
                   size |-> JInt(10), color |-> JInt(0)] >>,
     fonts |-> << <<7, "ttf", "TrueType", ROBOTO, "F1", "">> >>]

PageB ==
    [text  |-> <<"b">>, height |-> 12,
     spans |-> << [bbox |-> <<0, 0, 1, 12>>, font |-> JStr(HELV),
                   size |-> JInt(10), color |-> JInt(0)] >>,
     fonts |-> << >>]

\* doc[page_num]: a negative index counts from the end (load_page adds the
\* page count until the index is non-negative).  Result is 1-based.
RECURSIVE PageIndex(_, _)
PageIndex(page_num, n) ==
    IF page_num < 0 THEN PageIndex(page_num + n, n) ELSE page_num + 1

RECURSIVE SearchFrom(_, _, _)
\* page.search_for(needle): the rectangle of every place where needle renders,
\* left to right; the scan resumes after the end of a hit.
SearchFrom(page, needle, i) ==
    IF needle = <<>> \/ i + Len(needle) - 1 > Len(page.text)
    THEN <<>>
    ELSE IF SubSeq(page.text, i, i + Len(needle) - 1) = needle
         THEN << <<i - 1, 0, i - 1 + Len(needle), page.height>> >>
              \o SearchFrom(page, needle, i + Len(needle))
         ELSE SearchFrom(page, needle, i + 1)

SearchFor(page, needle) == SearchFrom(page, needle, 1)

\* ------------------------------------------------------------- first pass
\* ElementsToSearch with the replacement tested for one token instead of two
ElementsToSearch_OneReplacementToken(element_type, original_text, replacement) ==
    LET name_parts == Split(original_text)
        replacement_parts == Split(replacement)
    IN  << <<original_text, replacement>> >> \o
        (IF element_type \in NameTypes
            /\ Len(name_parts) >= 2 /\ Len(replacement_parts) >= 1
         THEN << <<name_parts[1], replacement_parts[1]>>,
                 <<name_parts[Len(name_parts)],
                   replacement_parts[Len(replacement_parts)]>> >>
         ELSE <<>>)

\* elements_to_search: the (search_text, search_replacement) pairs
ElementsToSearch(element_type, original_text, replacement) ==
    LET name_parts == Split(original_text)
        replacement_parts == Split(replacement)
    IN  << <<original_text, replacement>> >> \o
        (IF element_type \in NameTypes
            /\ Len(name_parts) >= 2 /\ Len(replacement_parts) >= 2
         THEN << <<name_parts[1], replacement_parts[1]>>,
                 <<name_parts[Len(name_parts)],
                   replacement_parts[Len(replacement_parts)]>> >>
         ELSE <<>>)

\* f"{page_num}_{search_text}_{rect.x0}_{rect.y0}"
Key(page_num, search_text, rect) ==
    IntStr(page_num) \o <<"_">> \o search_text \o <<"_">>
        \o FloatStr(X0(rect)) \o <<"_">> \o FloatStr(Y0(rect))

\* ActualSize taking the visual height from 1.5 x the reported size on
ActualSize_FromRatio(span) ==
    LET reported_size == Get(span, "size", JInt(10)).i
        visual_height == span.bbox[4] - span.bbox[2]
    IN  IF 2 * visual_height >= 3 * reported_size
        THEN 85 * visual_height
        ELSE 100 * reported_size

\* Size of a run in hundredths of a point: 0.85 x visual height when the
\* visual height exceeds 1.5 x the reported size, else the reported size.
ActualSize(span) ==
    LET reported_size == Get(span, "size", JInt(10)).i
        visual_height == span.bbox[4] - span.bbox[2]
    IN  IF 2 * visual_height > 3 * reported_size
        THEN 85 * visual_height
        ELSE 100 * reported_size

DefaultSpanInfo == [font |-> HELV, size |-> 1000, color |-> 0]

RECURSIVE ProbeFrom(_, _, _)
\* span_info of the first run, in order, whose bbox intersects rect
ProbeFrom(spans, rect, i) ==
    IF i > Len(spans) THEN DefaultSpanInfo
    ELSE IF Intersects(spans[i].bbox, rect)
         THEN [font  |-> Get(spans[i], "font", JStr(HELV)).s,
               size  |-> ActualSize(spans[i]),
               color |-> Get(spans[i], "color", JInt(0)).i]
         ELSE ProbeFrom(spans, rect, i + 1)

SpanInfo(page, rect) == ProbeFrom(page.spans, rect, 1)

RECURSIVE LineSpans(_, _)
\* for line in block["lines"]: for span in line["spans"]
LineSpans(block_lines, i) ==
    IF i > Len(block_lines) THEN <<>>
    ELSE block_lines[i].spans \o LineSpans(block_lines, i + 1)

RECURSIVE TextSpansFrom(_, _)
\* TextSpans with the blocks taken last to first
TextSpansFrom_Reversed(blocks, i) ==
    IF i > Len(blocks) THEN <<>>
    ELSE TextSpansFrom(blocks, i + 1)
         \o (IF blocks[i].has_lines THEN LineSpans(blocks[i].lines, 1) ELSE <<>>)

\* The runs of text_dict["blocks"] in the order the three loops visit them;
\* a block without "lines" (an image) has none.
TextSpansFrom(blocks, i) ==
    IF i > Len(blocks) THEN <<>>
    ELSE (IF blocks[i].has_lines THEN LineSpans(blocks[i].lines, 1) ELSE <<>>)
         \o TextSpansFrom(blocks, i + 1)

TextSpans(blocks) == TextSpansFrom(blocks, 1)

\* text_positions is a dict: a sequence of entries in insertion order, at
\* most one per key.  text_positions[key] = value keeps the position of an
\* existing key.
HasKey(tp, key) == \E j \in 1..Len(tp) : tp[j].key = key

DictSet(tp, entry) ==
    IF HasKey(tp, entry.key)
    THEN [j \in 1..Len(tp) |-> IF tp[j].key = entry.key THEN entry ELSE tp[j]]
    ELSE Append(tp, entry)

RECURSIVE StoreRects(_, _, _, _, _, _, _)
\* for rect in text_instances: text_positions[key] = {...}
\* on_page and search_text are not stored by the code: they record the page
\* the match lies on (the 1-based index of doc[page_num]) and the text that
\* was searched.
StoreRects(tp, page, on_page, page_num, pair, rects, i) ==
    IF i > Len(rects) THEN tp
    ELSE StoreRects(
            DictSet(tp, [key         |-> Key(page_num, pair[1], rects[i]),
                         rect        |-> rects[i],
                         replacement |-> pair[2],
                         span_info   |-> SpanInfo(page, rects[i]),
                         on_page     |-> on_page,
                         search_text |-> pair[1]]),
            page, on_page, page_num, pair, rects, i + 1)

RECURSIVE StorePairs(_, _, _, _, _, _)
\* for search_text, search_replacement in elements_to_search
StorePairs(tp, page, on_page, page_num, pairs, i) ==
    IF i > Len(pairs) THEN tp
    ELSE StorePairs(
            StoreRects(tp, page, on_page, page_num, pairs[i],
                       SearchFor(page, pairs[i][1]), 1),
            page, on_page, page_num, pairs, i + 1)

\* elements_to_search of an element, with the defaults of element.get
SearchPairs(element) ==
    ElementsToSearch(Get(element, "type", JStr("Unknown")).s,
                     Get(element, "value", JStr(<<>>)).s,
                     Get(element, "replacement", JStr(PLACEHOLDER)).s)

\* The loop body of the first pass for one element with an integer page:
\* the new text_positions.
Locate(tp, d, element) ==
    LET page_num == Get(element, "page", JInt(1)).i - 1
        on_page == PageIndex(page_num, Len(d))
    IN  IF page_num < Len(d)
        THEN StorePairs(tp, d[on_page], on_page, page_num, SearchPairs(element), 1)
        ELSE tp

\* NotFound reporting an element only when none of its search pairs matched
NotFound_AnyPair(nf, d, element) ==
    LET page_num == Get(element, "page", JInt(1)).i - 1
        original_text == Get(element, "value", JStr(<<>>)).s
        element_type == Get(element, "type", JStr("Unknown")).s
        replacement == Get(element, "replacement", JStr(PLACEHOLDER)).s
        pairs == SearchPairs(element)
    IN  IF page_num < Len(d)
           /\ \A i \in 1..Len(pairs) :
                 SearchFor(d[PageIndex(page_num, Len(d))], pairs[i][1]) = <<>>
        THEN Append(nf, [type |-> element_type, value |-> original_text,
                         page |-> page_num + 1, replacement |-> replacement])
        ELSE nf

\* The loop body of the first pass for one element with an integer page:
\* the new not_found_elements.
NotFound(nf, d, element) ==
    LET page_num == Get(element, "page", JInt(1)).i - 1
        original_text == Get(element, "value", JStr(<<>>)).s
        element_type == Get(element, "type", JStr("Unknown")).s
        replacement == Get(element, "replacement", JStr(PLACEHOLDER)).s
    IN  IF page_num < Len(d)
           /\ SearchFor(d[PageIndex(page_num, Len(d))], original_text) = <<>>
        THEN Append(nf, [type |-> element_type, value |-> original_text,
                         page |-> page_num + 1, replacement |-> replacement])
        ELSE nf

\* The pages whose text an element makes the first pass search (1-based)
Searched(d, element) ==
    LET page_num == Get(element, "page", JInt(1)).i - 1
    IN  IF page_num < Len(d) THEN {PageIndex(page_num, Len(d))} ELSE {}

\* ------------------------------------------------------------ second pass
\* OnPage with the prefix f"{page_num}", without the separator
OnPage_NoSeparator(entry, page_num) == StartsWith(entry.key, IntStr(page_num))

\* key.startswith(f"{page_num}_")
OnPage(entry, page_num) == StartsWith(entry.key, IntStr(page_num) \o <<"_">>)

\* redact_rects of a page: the rect of every entry whose key has the prefix
RedactRects(tp, page_num) ==
    LET sel == SelectSeq(tp, LAMBDA e : OnPage(e, page_num))
    IN  [j \in 1..Len(sel) |-> sel[j].rect]

\* font_map: base font name -> reference name, later tuples overwrite
\* earlier ones; tuples shorter than 5 are ignored.
FontMapKeys(page_fonts) ==
    {page_fonts[j][4] : j \in {k \in 1..Len(page_fonts) : Len(page_fonts[k]) >= 5}}

FontMap(page_fonts) ==
    [b \in FontMapKeys(page_fonts) |->
        LET last == CHOOSE j \in 1..Len(page_fonts) :
                        /\ Len(page_fonts[j]) >= 5 /\ page_fonts[j][4] = b
                        /\ \A k \in (j + 1)..Len(page_fonts) :
                              ~(Len(page_fonts[k]) >= 5 /\ page_fonts[k][4] = b)
        IN  page_fonts[last][5]]

\* The steps of the font chain: "a" page.insert_text with the page's font,
\* "b".."e" fitz.Font(name) for the four names of font_attempts, "f" fitz.Font()
FontSteps == {"a", "b", "c", "d", "e"}

\* font_attempts
FontAttempts(original_font) ==
    <<original_font, RemoveDash(original_font), HELV, TIMES_ROMAN>>

StepOf(i) == <<"b", "c", "d", "e">>[i]

\* The steps that are attempted and raise, when the steps of `fails` are
\* those that raise if attempted.
Raised(original_font, fmap, fails) ==
    LET tried_a == IF original_font \in DOMAIN fmap THEN {"a"} ELSE {}
        first_ok == {i \in 1..4 : StepOf(i) \notin fails
                                   /\ \A k \in 1..(i - 1) : StepOf(k) \in fails}
    IN  IF "a" \in tried_a /\ "a" \notin fails THEN {}
        ELSE (tried_a \cap fails)
             \cup {StepOf(i) : i \in {j \in 1..4 : \A k \in first_ok : j < k}}

\* DrawnBy with "helv" tried before the names of the probed font
DrawnBy_HelvFirst(original_font, fmap, fails) ==
    IF original_font \in DOMAIN fmap /\ "a" \notin fails THEN "a"
    ELSE IF "d" \notin fails THEN "d"
    ELSE IF \E i \in 1..4 : StepOf(i) \notin fails
         THEN StepOf(CHOOSE i \in 1..4 :
                        /\ StepOf(i) \notin fails
                        /\ \A k \in 1..(i - 1) : StepOf(k) \in fails)
         ELSE "f"

\* The step that draws the text, when the steps of `fails` raise.
DrawnBy(original_font, fmap, fails) ==
    IF original_font \in DOMAIN fmap /\ "a" \notin fails THEN "a"
    ELSE IF \E i \in 1..4 : StepOf(i) \notin fails
         THEN StepOf(CHOOSE i \in 1..4 :
                        /\ StepOf(i) \notin fails
                        /\ \A k \in 1..(i - 1) : StepOf(k) \in fails)
         ELSE "f"

\* What the chain can do for an entry, over every combination of steps that
\* raise when attempted: the step that draws and the steps that raised.
ChainOutcomes(original_font, fmap) ==
    {[via    |-> DrawnBy(original_font, fmap, f),
      raised |-> Raised(original_font, fmap, f)] : f \in SUBSET FontSteps}

\* The font object held by `font` after the chain: None on the insert_text
\* path, else the name the font was loaded by ("base" for fitz.Font()).
FontOf(original_font, via) ==
    CASE via = "a" -> [kind |-> "none", name |-> <<>>]
      [] via = "f" -> [kind |-> "base", name |-> <<>>]
      [] OTHER -> [kind |-> "named",
                   name |-> FontAttempts(original_font)[
                               CHOOSE i \in 1..4 : StepOf(i) = via]]

\* The text drawn for an entry: by page.insert_text (step "a", with the
\* entry's color) or by TextWriter.append/write_text (no color argument).
\* point is <<x0, 1000 * y0 + 0.8 * size>> with y in thousandths.
Drawn(entry, fmap, via) ==
    [key      |-> entry.key,
     text     |-> entry.replacement,
     point    |-> <<X0(entry.rect), 1000 * Y0(entry.rect) + 8 * entry.span_info.size>>,
     fontsize |-> entry.span_info.size,
     color    |-> IF via = "a" THEN <<entry.span_info.color>> ELSE <<>>,
     fontname |-> IF via = "a" THEN <<fmap[entry.span_info.font]>> ELSE <<>>]

\* --------------------------------------------------------------- metadata
MetaKeys == {"title", "author", "producer"}

\* dict.get(key): None when the key is missing
MetaGet(m, k) == IF k \in DOMAIN m THEN m[k] ELSE "None"

\* NewMetadata starting from an empty dict instead of a copy
NewMetadata_NoCopy(original_metadata) == [k \in {"author"} |-> ATTRIBUTION]

\* metadata = original_metadata.copy() if original_metadata else {}
\* metadata["author"] = ...
NewMetadata(original_metadata) ==
    LET metadata == IF DOMAIN original_metadata # {} THEN original_metadata
                    ELSE [k \in {} |-> "None"]
    IN  [k \in DOMAIN metadata \cup {"author"} |->
            IF k = "author" THEN ATTRIBUTION ELSE metadata[k]]

\* doc.set_metadata(m) followed by doc.metadata: every key of the document
\* information is written from m, a key m lacks is cleared
SetMetadata(m) == [k \in MetaKeys |-> MetaGet(m, k)]

\* ------------------------------------------------------------------ inputs
ValueAB == <<"a", " ", "b">>
ReplXY == <<"x", " ", "y">>

\* The elements the oracle may report: a person name with a two-token
\* replacement, an IBAN whose replacement is empty or missing.  Pages run from
\* 0 to the largest page count; a JSON null page is a malformed element.
Elements ==
    {e \in [type        : {JStr("Person Name"), JStr("IBAN")},
            value       : {JStr(ValueAB)},
            replacement : {JStr(ReplXY), JStr(<<>>), JAbsent},
            page        : {JInt(p) : p \in 0..MaxPages} \cup {JNull},
            confidence  : {JInt(1)}] :
        /\ e.type = JStr("Person Name") <=> e.replacement = JStr(ReplXY)
        /\ e.page = JNull => e.replacement = JAbsent}

EmptyMetadata == [k \in {} |-> "None"]
FullMetadata ==
    [title |-> "Test Document", author |-> "Original Author", producer |-> "None"]

\* The input files of 1..MaxPages pages: the last page is a PageA, the pages
\* before it alternate; the files of an even number of pages carry metadata
Documents ==
    {[pages    |-> [p \in 1..n |-> IF (n - p) % 2 = 0 THEN PageA ELSE PageB],
      metadata |-> IF n % 2 = 0 THEN FullMetadata ELSE EmptyMetadata]
        : n \in 1..MaxPages}

NoElement == [type |-> JAbsent, value |-> JAbsent, replacement |-> JAbsent,
              page |-> JAbsent, confidence |-> JAbsent]

\* ------------------------------------------------------------------- state
VARIABLES
    pc,                  \* position in the function at hand
    doc,                 \* the pages of the input document
    in_metadata,         \* the metadata of the input document
    doc_open,            \* doc of line 31 is open
    original_metadata,   \* local original_metadata
    sensitive_elements,  \* analysis_result["sensitive_elements"] as iterated
    element,             \* loop variable of the first pass
    elements_to_search,  \* local elements_to_search of that iteration
    n_elements,          \* number of elements iterated so far
    searched,            \* pages searched for `element`
    text_positions,      \* dict key -> {rect, replacement, span_info}
    not_found_elements,  \* list of not-found diagnostics
    page_num,            \* loop variable of the second pass (0-based)
    redact_rects,        \* local list of the current page
    cursor,              \* next index of the loop in progress
    font_map,            \* local font_map of the current page
    drawn_by,            \* font step that drew the text of the last iteration
                         \* of the insertion loop in progress, else "none"
    fails,               \* font steps that raised in that iteration
    annots,              \* per page: redaction annotations not yet applied
    blanked,             \* per page: rectangles whose content was removed
    applied,             \* per page: number of apply_redactions calls
    inserted,            \* per page: texts drawn, in order
    fonts_read,          \* per page: number of get_fonts calls
    doc_metadata,        \* metadata of the open document
    output,              \* the saved file: <<>> or <<snapshot>>
    error,               \* exception that left anonymize_pdf, or "none"
    summary,             \* the statistics anonymize_pdf adds to analysis_result
    response,            \* what /api/process answers: <<>> or <<answer>>
    text_dict,           \* page.get_text("dict")["blocks"] of a probe
    rect,                \* the matched rectangle of a probe
    span_info,           \* span_info of a probe
    full_text,           \* analyze_document: the extracted text
    pdf_text,            \* analyze_document: the text placed in the prompt
    was_truncated,       \* analyze_document: local was_truncated
    reply,               \* analyze_document: the oracle's HTTP response
    parsed_result,       \* analyze_document: <<>> or <<the result returned>>
    lines,               \* extract_text_from_pdf: the lines of a page, sorted
    line_no,             \* extract_text_from_pdf: next line of the loop
    seen_positions,      \* extract_text_from_pdf: local seen_positions
    page_text_parts,     \* extract_text_from_pdf: indices of the lines emitted
    clock,               \* process_pdf: int(time.time() * 1000)
    uploads,             \* process_pdf: the files of UPLOAD_DIR, by path
    calls,               \* process_pdf: the state of every request
    running              \* per worker: the request its event loop runs, or 0

\* the input file
file_vars == <<doc, in_metadata>>
\* locals of the first pass
locate_vars == <<sensitive_elements, element, elements_to_search, n_elements, searched,
                 text_positions, not_found_elements>>
\* locals of the second pass
page_vars == <<page_num, redact_rects, cursor, font_map, drawn_by, fails>>
\* content of the pages of the open document
content_vars == <<annots, blanked, applied, inserted, fonts_read>>
\* what anonymize_pdf and the request handler hand back
out_vars == <<summary, response>>
\* locals of the span probe, of analyze_document, of extract_text_from_pdf
probe_vars == <<text_dict, rect, span_info>>
analyze_vars == <<full_text, pdf_text, was_truncated, reply, parsed_result>>
extract_vars == <<lines, line_no, seen_positions, page_text_parts>>
\* the requests of /api/process and what they share
handler_vars == <<clock, uploads, calls, running>>
side_vars == <<probe_vars, analyze_vars, extract_vars, handler_vars>>

vars == <<pc, file_vars, doc_open, original_metadata, locate_vars, page_vars,
          content_vars, doc_metadata, output, error, out_vars, side_vars>>

\* The span probe, analyze_document and extract_text_from_pdf are not running
ProbeIdle == text_dict = <<>> /\ rect = <<0, 0, 0, 0>> /\ span_info = DefaultSpanInfo
AnalyzeIdle ==
    /\ full_text = <<>>
    /\ pdf_text = <<>>
    /\ was_truncated = FALSE
    /\ reply = <<>>
    /\ parsed_result = <<>>
ExtractIdle ==
    /\ lines = <<>>
    /\ line_no = 1
    /\ seen_positions = {}
    /\ page_text_parts = <<>>
\* No request of /api/process is modelled
HandlerIdle ==
    /\ clock = 0
    /\ uploads = <<>>
    /\ calls = <<>>
    /\ running = <<>>

Init ==
    /\ pc = "analyze"
    /\ \E file \in Documents : doc = file.pages /\ in_metadata = file.metadata
    /\ doc_open = FALSE
    /\ original_metadata = EmptyMetadata
    /\ sensitive_elements = <<>>
    /\ element = NoElement
    /\ elements_to_search = <<>>
    /\ n_elements = 0
    /\ searched = {}
    /\ text_positions = <<>>
    /\ not_found_elements = <<>>
    /\ page_num = 0
    /\ redact_rects = <<>>
    /\ cursor = 1
    /\ font_map = <<>>
    /\ drawn_by = "none"
    /\ fails = {}
    /\ annots = [p \in 1..Len(doc) |-> <<>>]
    /\ blanked = [p \in 1..Len(doc) |-> {}]
    /\ applied = [p \in 1..Len(doc) |-> 0]
    /\ inserted = [p \in 1..Len(doc) |-> <<>>]
    /\ fonts_read = [p \in 1..Len(doc) |-> 0]
    /\ doc_metadata = in_metadata
    /\ output = <<>>
    /\ error = "none"
    /\ summary = <<>>
    /\ response = <<>>
    /\ ProbeIdle /\ AnalyzeIdle /\ ExtractIdle /\ HandlerIdle

\* analyzer.analyze_document(input_path) returns
AnalyzeOk ==
    /\ pc = "analyze"
    /\ pc' = "open"
    /\ UNCHANGED <<side_vars, out_vars, file_vars,
                   doc_open, original_metadata, locate_vars,
                   page_vars, content_vars, doc_metadata, output, error>>

\* analyze_document raises: RequestException when the status is not 200,
\* ValueError when the response does not parse
AnalyzeFails ==
    /\ pc = "analyze"
    /\ \E e \in {"RequestException", "ValueError"} : error' = e
    /\ pc' = "raised"
    /\ UNCHANGED <<side_vars, out_vars, file_vars,
                   doc_open, original_metadata, locate_vars,
                   page_vars, content_vars, doc_metadata, output>>

\* doc = fitz.open(input_path); original_metadata = doc.metadata
Open ==
    /\ pc = "open"
    /\ doc_open' = TRUE
    /\ original_metadata' = doc_metadata
    /\ pc' = "locate"
    /\ UNCHANGED <<side_vars, out_vars, file_vars,
                   locate_vars, page_vars, content_vars,
                   doc_metadata, output, error>>

\* The document as a file holds it
Snapshot ==
    [annots |-> annots, blanked |-> blanked, inserted |-> inserted,
     metadata |-> doc_metadata]

\* Unwind with the document saved by the finally clause
Unwind_SavesPartial(e) ==
    /\ pc' = "raised"
    /\ error' = e
    /\ doc_open' = FALSE
    /\ original_metadata' = EmptyMetadata
    /\ sensitive_elements' = <<>>
    /\ element' = NoElement
    /\ elements_to_search' = <<>>
    /\ n_elements' = 0
    /\ searched' = {}
    /\ text_positions' = <<>>
    /\ not_found_elements' = <<>>
    /\ page_num' = 0
    /\ redact_rects' = <<>>
    /\ cursor' = 1
    /\ font_map' = <<>>
    /\ drawn_by' = "none"
    /\ fails' = {}
    /\ output' = <<Snapshot>>
    /\ UNCHANGED <<side_vars, out_vars, file_vars, content_vars, doc_metadata>>

\* An exception leaves the try block: the finally clause closes the document
\* and the locals of anonymize_pdf are gone.
Unwind(e) ==
    /\ pc' = "raised"
    /\ error' = e
    /\ doc_open' = FALSE
    /\ original_metadata' = EmptyMetadata
    /\ sensitive_elements' = <<>>
    /\ element' = NoElement
    /\ elements_to_search' = <<>>
    /\ n_elements' = 0
    /\ searched' = {}
    /\ text_positions' = <<>>
    /\ not_found_elements' = <<>>
    /\ page_num' = 0
    /\ redact_rects' = <<>>
    /\ cursor' = 1
    /\ font_map' = <<>>
    /\ drawn_by' = "none"
    /\ fails' = {}
    /\ UNCHANGED <<side_vars, out_vars, file_vars,
                   content_vars, doc_metadata, output>>

\* One iteration of the first pass.  element.get("page", 1) - 1 raises
\* TypeError on a null page.
LocateFrom(records) ==
    /\ pc = "locate"
    /\ n_elements < MaxRecords
    /\ \E e \in records :
        IF Get(e, "page", JInt(1)).t # "int"
        THEN Unwind("TypeError")
        ELSE /\ sensitive_elements' = Append(sensitive_elements, e)
             /\ element' = e
             /\ elements_to_search' = SearchPairs(e)
             /\ n_elements' = n_elements + 1
             /\ searched' = Searched(doc, e)
             /\ text_positions' = Locate(text_positions, doc, e)
             /\ not_found_elements' = NotFound(not_found_elements, doc, e)
             /\ UNCHANGED <<pc, side_vars, out_vars, file_vars,
                            doc_open, original_metadata,
                            page_vars, content_vars, doc_metadata, output, error>>

LocateElement == LocateFrom(Elements)

\* The top of the second pass for page p: redact_rects is collected
StartPage(p) ==
    /\ page_num' = p
    /\ redact_rects' = RedactRects(text_positions, p)
    /\ cursor' = 1
    /\ drawn_by' = "none"
    /\ fails' = {}
    /\ pc' = "annot"

\* The first pass ends; the second pass starts at page 0 (a document has at
\* least one page).
LocateDone ==
    /\ pc = "locate"
    /\ StartPage(0)
    /\ UNCHANGED <<side_vars, out_vars, file_vars,
                   doc_open, original_metadata, locate_vars,
                   font_map, content_vars, doc_metadata, output, error>>

\* page.add_redact_annot(rect, fill=(1, 1, 1)) for the next rect
AddRedactAnnot ==
    /\ pc = "annot"
    /\ cursor <= Len(redact_rects)
    /\ annots' = [annots EXCEPT ![page_num + 1] = Append(@, redact_rects[cursor])]
    /\ cursor' = cursor + 1
    /\ UNCHANGED <<pc, side_vars, out_vars, file_vars,
                   doc_open, original_metadata, locate_vars,
                   page_num, redact_rects, font_map, drawn_by, fails, blanked,
                   applied, inserted, fonts_read, doc_metadata, output, error>>

\* ApplyRedactions with the call of apply_redactions left out
ApplyRedactions_Omitted ==
    /\ pc = "annot"
    /\ cursor > Len(redact_rects)
    /\ pc' = "fonts"
    /\ UNCHANGED <<side_vars, out_vars, file_vars,
                   doc_open, original_metadata, locate_vars,
                   page_vars, content_vars, doc_metadata, output, error>>

\* page.apply_redactions(): the content under every annotation is removed
ApplyRedactions ==
    /\ pc = "annot"
    /\ cursor > Len(redact_rects)
    /\ blanked' = [blanked EXCEPT ![page_num + 1] =
                      @ \cup {annots[page_num + 1][j] :
                                 j \in 1..Len(annots[page_num + 1])}]
    /\ annots' = [annots EXCEPT ![page_num + 1] = <<>>]
    /\ applied' = [applied EXCEPT ![page_num + 1] = @ + 1]
    /\ pc' = "fonts"
    /\ UNCHANGED <<side_vars, out_vars, file_vars,
                   doc_open, original_metadata, locate_vars,
                   page_vars, inserted, fonts_read, doc_metadata, output, error>>

\* GetFonts reading the fonts of the first page for every page
GetFonts_OfFirstPage ==
    /\ pc = "fonts"
    /\ font_map' = FontMap(doc[1].fonts)
    /\ fonts_read' = [fonts_read EXCEPT ![page_num + 1] = @ + 1]
    /\ cursor' = 1
    /\ pc' = "insert"
    /\ UNCHANGED <<side_vars, out_vars, file_vars, doc_open, original_metadata,
                   locate_vars, page_num, redact_rects, drawn_by, fails, annots,
                   blanked, applied, inserted, doc_metadata, output, error>>

\* page_fonts = page.get_fonts(full=True); font_map is built
GetFonts ==
    /\ pc = "fonts"
    /\ font_map' = FontMap(doc[page_num + 1].fonts)
    /\ fonts_read' = [fonts_read EXCEPT ![page_num + 1] = @ + 1]
    /\ cursor' = 1
    /\ pc' = "insert"
    /\ UNCHANGED <<side_vars, out_vars, file_vars, doc_open, original_metadata,
                   locate_vars, page_num, redact_rects, drawn_by, fails, annots,
                   blanked, applied, inserted, doc_metadata, output, error>>

\* One iteration of the insertion loop: an entry of another page is skipped,
\* an entry of this page is drawn by the first step of the chain that does
\* not raise.
InsertReplacement ==
    /\ pc = "insert"
    /\ cursor <= Len(text_positions)
    /\ LET info == text_positions[cursor]
       IN  IF OnPage(info, page_num)
           THEN \E o \in ChainOutcomes(info.span_info.font, font_map) :
                   /\ fails' = o.raised
                   /\ drawn_by' = o.via
                   /\ inserted' = [inserted EXCEPT ![page_num + 1] =
                                      Append(@, Drawn(info, font_map, o.via))]
           ELSE UNCHANGED <<fails, drawn_by, inserted>>
    /\ cursor' = cursor + 1
    /\ UNCHANGED <<pc, side_vars, out_vars, file_vars,
                   doc_open, original_metadata, locate_vars,
                   page_num, redact_rects, font_map, annots, blanked, applied,
                   fonts_read, doc_metadata, output, error>>

\* NextPage with doc.save inside the loop over the pages
NextPage_SavesEachPage ==
    /\ pc = "insert"
    /\ cursor > Len(text_positions)
    /\ page_num + 1 < Len(doc)
    /\ StartPage(page_num + 1)
    /\ output' = <<Snapshot>>
    /\ UNCHANGED <<side_vars, out_vars, file_vars,
                   doc_open, original_metadata, locate_vars,
                   font_map, content_vars, doc_metadata, error>>

\* The insertion loop of the page ends: next page
NextPage ==
    /\ pc = "insert"
    /\ cursor > Len(text_positions)
    /\ page_num + 1 < Len(doc)
    /\ StartPage(page_num + 1)
    /\ UNCHANGED <<side_vars, out_vars, file_vars,
                   doc_open, original_metadata, locate_vars,
                   font_map, content_vars, doc_metadata, output, error>>

\* The last page is done: doc.set_metadata(metadata)
WriteMetadata ==
    /\ pc = "insert"
    /\ cursor > Len(text_positions)
    /\ page_num + 1 = Len(doc)
    /\ doc_metadata' = SetMetadata(NewMetadata(original_metadata))
    /\ drawn_by' = "none"
    /\ fails' = {}
    /\ pc' = "stats"
    /\ UNCHANGED <<side_vars, out_vars, file_vars,
                   doc_open, original_metadata, locate_vars,
                   page_num, redact_rects, cursor, font_map, content_vars,
                   output, error>>

\* elements_by_type: type -> number of elements of that type
ElementsByType(elements) ==
    LET type_of(j) == Get(elements[j], "type", JStr("Unknown")).s
    IN  [t \in {type_of(j) : j \in 1..Len(elements)} |->
            Cardinality({j \in 1..Len(elements) : type_of(j) = t})]

\* Summarize without the test of not_found_elements
Summarize_AlwaysNotFound ==
    /\ pc = "stats"
    /\ summary' =
          << [anonymization_summary |->
                [total_elements_found |-> Len(sensitive_elements),
                 total_replacements   |-> Len(text_positions),
                 elements_by_type     |-> ElementsByType(sensitive_elements),
                 ai_detected_count    |-> Len(sensitive_elements),
                 actually_found_count |-> Len(text_positions),
                 not_found_count      |-> Len(not_found_elements)],
              not_found_in_pdf |-> <<not_found_elements>>] >>
    /\ pc' = "save"
    /\ UNCHANGED <<side_vars, response, file_vars, doc_open, original_metadata,
                   locate_vars, page_vars, content_vars, doc_metadata, output,
                   error>>

\* The statistics: analysis_result["anonymization_summary"], and the key
\* "not_found_in_pdf" (<<>> when the key is not set)
Summarize ==
    /\ pc = "stats"
    /\ summary' =
          << [anonymization_summary |->
                [total_elements_found |-> Len(sensitive_elements),
                 total_replacements   |-> Len(text_positions),
                 elements_by_type     |-> ElementsByType(sensitive_elements),
                 ai_detected_count    |-> Len(sensitive_elements),
                 actually_found_count |-> Len(text_positions),
                 not_found_count      |-> Len(not_found_elements)],
              not_found_in_pdf |-> IF not_found_elements # <<>>
                                   THEN <<not_found_elements>> ELSE <<>>] >>
    /\ pc' = "save"
    /\ UNCHANGED <<side_vars, response, file_vars, doc_open, original_metadata,
                   locate_vars, page_vars, content_vars, doc_metadata, output,
                   error>>

\* doc.save(output_path, garbage=4, deflate=True, clean=True)
Save ==
    /\ pc = "save"
    /\ output' = <<Snapshot>>
    /\ pc' = "close"
    /\ UNCHANGED <<side_vars, out_vars, file_vars,
                   doc_open, original_metadata, locate_vars,
                   page_vars, content_vars, doc_metadata, error>>

\* finally: doc.close(); return analysis_result
Return ==
    /\ pc = "close"
    /\ doc_open' = FALSE
    /\ pc' = "returned"
    /\ UNCHANGED <<side_vars, out_vars, file_vars,
                   original_metadata, locate_vars, page_vars,
                   content_vars, doc_metadata, output, error>>

\* A call of the document library inside the try block raises (anonymize_pdf
\* "Raises: Exception: If analysis or PDF processing fails"), before doc.save
\* is reached.
ProcessingFails ==
    /\ pc \in {"locate", "annot", "fonts", "insert"}
    /\ Unwind("Exception")

\* SensitiveElement(**element): every field is required and typed
RequiredFields ==
    [type |-> "str", value |-> "str", replacement |-> "str", page |-> "int",
     confidence |-> "int"]

Validates(e) == \A f \in DOMAIN RequiredFields : e[f].t = RequiredFields[f]

\* The handler of /api/process after anonymize_pdf returned: the entities are
\* built from the elements; a validation error is a ValueError, answered 500.
BuildResponse ==
    /\ pc = "returned"
    /\ response' =
          IF \A j \in 1..Len(sensitive_elements) : Validates(sensitive_elements[j])
          THEN << [status_code |-> 200, entities |-> sensitive_elements,
                   total_elements |-> Len(sensitive_elements),
                   elements_by_type |->
                       summary[1].anonymization_summary.elements_by_type] >>
          ELSE << [status_code |-> 500, entities |-> <<>>, total_elements |-> 0,
                   elements_by_type |-> <<>>] >>
    /\ pc' = "responded"
    /\ UNCHANGED <<side_vars, summary, file_vars, doc_open, original_metadata,
                   locate_vars, page_vars, content_vars, doc_metadata, output,
                   error>>

\* The handler of /api/process after anonymize_pdf raised: RequestException
\* is answered 502, ValueError and every other exception 500.
ErrorResponse ==
    /\ pc = "raised"
    /\ response' =
          << [status_code |-> IF error = "RequestException" THEN 502 ELSE 500,
              entities |-> <<>>, total_elements |-> 0,
              elements_by_type |-> <<>>] >>
    /\ pc' = "responded"
    /\ UNCHANGED <<side_vars, summary, file_vars, doc_open, original_metadata,
                   locate_vars, page_vars, content_vars, doc_metadata, output,
                   error>>

Next ==
    \/ AnalyzeOk
    \/ AnalyzeFails
    \/ Open
    \/ LocateElement
    \/ LocateDone
    \/ AddRedactAnnot
    \/ ApplyRedactions
    \/ GetFonts
    \/ InsertReplacement
    \/ NextPage
    \/ WriteMetadata
    \/ Summarize
    \/ Save
    \/ Return
    \/ ProcessingFails
    \/ BuildResponse
    \/ ErrorResponse

Spec == Init /\ [][Next]_vars

\* ------------------------------------------ elements that lack their fields
\* The complete element, the element without one of its fields, the empty
\* element
LooseElements ==
    {e \in [type        : {JStr("Person Name"), JAbsent},
            value       : {JStr(ValueAB), JAbsent},
            replacement : {JStr(ReplXY), JAbsent},
            page        : {JInt(1), JAbsent},
            confidence  : {JInt(1), JAbsent}] :
        Cardinality({f \in DOMAIN e : e[f].t = "absent"}) \in {0, 1, 5}}

LocateLoose == LocateFrom(LooseElements)

NextLoose ==
    \/ AnalyzeOk
    \/ AnalyzeFails
    \/ Open
    \/ LocateLoose
    \/ LocateDone
    \/ AddRedactAnnot
    \/ ApplyRedactions
    \/ GetFonts
    \/ InsertReplacement
    \/ NextPage
    \/ WriteMetadata
    \/ Summarize
    \/ Save
    \/ Return
    \/ ProcessingFails
    \/ BuildResponse
    \/ ErrorResponse

SpecLoose == Init /\ [][NextLoose]_vars

\* ------------------------------------------------ documents of many pages
\* A file of LongPages pages without metadata; its last page is a PageA and
\* the pages before it alternate.
LongDocuments ==
    {[pages    |-> [p \in 1..LongPages |->
                       IF (LongPages - p) % 2 = 0 THEN PageA ELSE PageB],
      metadata |-> EmptyMetadata]}

Value_b == <<"b">>

\* An IBAN reported for page 0, for page 2 or for the last page: the 0-based
\* numbers of the last two are 1 and LongPages - 1
LongElements ==
    [type        : {JStr("IBAN")},
     value       : {JStr(Value_b)},
     replacement : {JStr(ReplXY)},
     page        : {JInt(0), JInt(2), JInt(LongPages)},
     confidence  : {JInt(1)}]

InitLong ==
    /\ pc = "analyze"
    /\ \E file \in LongDocuments : doc = file.pages /\ in_metadata = file.metadata
    /\ doc_open = FALSE
    /\ original_metadata = EmptyMetadata
    /\ sensitive_elements = <<>>
    /\ element = NoElement
    /\ elements_to_search = <<>>
    /\ n_elements = 0
    /\ searched = {}
    /\ text_positions = <<>>
    /\ not_found_elements = <<>>
    /\ page_num = 0
    /\ redact_rects = <<>>
    /\ cursor = 1
    /\ font_map = <<>>
    /\ drawn_by = "none"
    /\ fails = {}
    /\ annots = [p \in 1..Len(doc) |-> <<>>]
    /\ blanked = [p \in 1..Len(doc) |-> {}]
    /\ applied = [p \in 1..Len(doc) |-> 0]
    /\ inserted = [p \in 1..Len(doc) |-> <<>>]
    /\ fonts_read = [p \in 1..Len(doc) |-> 0]
    /\ doc_metadata = in_metadata
    /\ output = <<>>
    /\ error = "none"
    /\ summary = <<>>
    /\ response = <<>>
    /\ ProbeIdle /\ AnalyzeIdle /\ ExtractIdle /\ HandlerIdle

LocateLong == LocateFrom(LongElements)

NextLong ==
    \/ AnalyzeOk
    \/ AnalyzeFails
    \/ Open
    \/ LocateLong
    \/ LocateDone
    \/ AddRedactAnnot
    \/ ApplyRedactions
    \/ GetFonts
    \/ InsertReplacement
    \/ NextPage
    \/ WriteMetadata
    \/ Summarize
    \/ Save
    \/ Return
    \/ ProcessingFails
    \/ BuildResponse
    \/ ErrorResponse

SpecLong == InitLong /\ [][NextLong]_vars

\* ------------------------------------------- elements_to_search on its own
Str_a == <<"a">>
Str_a_b_c == <<"a", " ", "b", " ", "c">>
Str_a__b == <<"a", " ", " ", "b">>
Str_sp_a == <<" ", "a">>
Str_a_b_sp == <<"a", " ", "b", " ">>
Str_sp == <<" ">>
PairStrings ==
    {<<>>, Str_a, ValueAB, Str_a_b_c, Str_a__b, Str_sp_a, Str_a_b_sp, Str_sp}

PairElements ==
    [type        : {JStr("Person Name"), JStr("Client Name"), JStr("IBAN"), JAbsent},
     value       : {JStr(v) : v \in PairStrings},
     replacement : {JStr(r) : r \in PairStrings} \cup {JAbsent},
     page        : {JInt(1)},
     confidence  : {JInt(1)}]

InitPairs ==
    /\ pc = "pairs"
    /\ \E file \in Documents : doc = file.pages /\ in_metadata = file.metadata
    /\ Len(doc) = 1
    /\ doc_open = TRUE
    /\ original_metadata = in_metadata
    /\ sensitive_elements = <<>>
    /\ element \in PairElements
    /\ elements_to_search = <<>>
    /\ n_elements = 0
    /\ searched = {}
    /\ text_positions = <<>>
    /\ not_found_elements = <<>>
    /\ page_num = 0
    /\ redact_rects = <<>>
    /\ cursor = 1
    /\ font_map = <<>>
    /\ drawn_by = "none"
    /\ fails = {}
    /\ annots = [p \in 1..Len(doc) |-> <<>>]
    /\ blanked = [p \in 1..Len(doc) |-> {}]
    /\ applied = [p \in 1..Len(doc) |-> 0]
    /\ inserted = [p \in 1..Len(doc) |-> <<>>]
    /\ fonts_read = [p \in 1..Len(doc) |-> 0]
    /\ doc_metadata = in_metadata
    /\ output = <<>>
    /\ error = "none"
    /\ summary = <<>>
    /\ response = <<>>
    /\ ProbeIdle /\ AnalyzeIdle /\ ExtractIdle /\ HandlerIdle

\* Lines 43-59 for the element at hand
BuildPairs ==
    /\ pc = "pairs"
    /\ elements_to_search' = SearchPairs(element)
    /\ pc' = "pairs_done"
    /\ UNCHANGED <<side_vars, out_vars, file_vars, doc_open, original_metadata,
                   sensitive_elements, element, n_elements, searched,
                   text_positions, not_found_elements, page_vars,
                   content_vars, doc_metadata, output, error>>

NextPairs == BuildPairs

SpecPairs == InitPairs /\ [][NextPairs]_vars

\* ------------------------------------------------- the span probe on its own
\* Everything of anonymize_pdf and of the request handler
main_vars == <<file_vars, doc_open, original_metadata, locate_vars, page_vars,
               content_vars, doc_metadata, output, error, out_vars, handler_vars>>

\* anonymize_pdf is not running
PipelineIdle ==
    /\ doc = <<>>
    /\ in_metadata = EmptyMetadata
    /\ doc_open = FALSE
    /\ original_metadata = EmptyMetadata
    /\ sensitive_elements = <<>>
    /\ element = NoElement
    /\ elements_to_search = <<>>
    /\ n_elements = 0
    /\ searched = {}
    /\ text_positions = <<>>
    /\ not_found_elements = <<>>
    /\ page_num = 0
    /\ redact_rects = <<>>
    /\ cursor = 1
    /\ font_map = <<>>
    /\ drawn_by = "none"
    /\ fails = {}
    /\ annots = <<>>
    /\ blanked = <<>>
    /\ applied = <<>>
    /\ inserted = <<>>
    /\ fonts_read = <<>>
    /\ doc_metadata = EmptyMetadata
    /\ output = <<>>
    /\ error = "none"
    /\ summary = <<>>
    /\ response = <<>>

\* Runs of a page: a blue run, a tall run whose reported size is too small,
\* a run without font, size and color
ProbeSpans ==
    {[bbox |-> <<0, 0, 3, 12>>, font |-> JStr(ROBOTO), size |-> JInt(10),
      color |-> JInt(255)],
     [bbox |-> <<2, 0, 5, 20>>, font |-> JStr(TIMES_ROMAN), size |-> JInt(10),
      color |-> JInt(0)],
     [bbox |-> <<4, 0, 7, 12>>, font |-> JAbsent, size |-> JAbsent,
      color |-> JAbsent]}

\* Lines of one or two runs
ProbeLines ==
    {[spans |-> ss] : ss \in UNION {[1..n -> ProbeSpans] : n \in 1..2}}

\* An image block, the blocks of one line, the blocks of two one-run lines
ProbeBlocks ==
    {[has_lines |-> FALSE, lines |-> <<>>]}
        \cup {[has_lines |-> TRUE, lines |-> <<l>>] : l \in ProbeLines}
        \cup {[has_lines |-> TRUE,
                lines |-> <<[spans |-> <<a>>], [spans |-> <<b>>]>>] :
                 a \in ProbeSpans, b \in ProbeSpans}

\* Matched rectangles over the first run, the first two, the last two, the
\* last, none
ProbeRects ==
    {<<0, 0, 1, 12>>, <<2, 0, 3, 12>>, <<4, 0, 5, 12>>, <<6, 0, 7, 12>>,
     <<8, 0, 9, 12>>}

InitProbe ==
    /\ pc = "probe"
    /\ PipelineIdle /\ AnalyzeIdle /\ ExtractIdle /\ HandlerIdle
    /\ text_dict \in UNION {[1..n -> ProbeBlocks] : n \in 0..MaxBlocks}
    /\ rect \in ProbeRects
    /\ span_info = DefaultSpanInfo

\* Lines 75-107 for one matched rectangle
Probe ==
    /\ pc = "probe"
    /\ span_info' = ProbeFrom(TextSpans(text_dict), rect, 1)
    /\ pc' = "probed"
    /\ UNCHANGED <<main_vars, text_dict, rect, analyze_vars, extract_vars>>

NextProbe == Probe

SpecProbe == InitProbe /\ [][NextProbe]_vars

\* One run of reported size 1..MaxSize, or without a size, and of visual
\* height 1..MaxHeight, under the matched rectangle
InitSize ==
    /\ pc = "probe"
    /\ PipelineIdle /\ AnalyzeIdle /\ ExtractIdle /\ HandlerIdle
    /\ \E size \in {JInt(n) : n \in 1..MaxSize} \cup {JAbsent}, h \in 1..MaxHeight :
          text_dict = << [has_lines |-> TRUE,
                          lines |-> << [spans |-> << [bbox |-> <<0, 0, 1, h>>,
                                                      font |-> JStr(HELV),
                                                      size |-> size,
                                                      color |-> JInt(0)] >>] >>] >>
    /\ rect = <<0, 0, 1, 1>>
    /\ span_info = DefaultSpanInfo

SpecSize == InitSize /\ [][NextProbe]_vars

\* ----------------------------------------------------- analyze_document
\* The character budget of the document text
TextLimit == 8000

\* s[:n]
Take(s, n) == [i \in 1..(IF Len(s) < n THEN Len(s) ELSE n) |-> s[i]]

\* was_truncated set from the budget on
WasTruncated_FromLimit(text) == Len(text) >= TextLimit

\* len(full_text) > 8000
WasTruncated(text) == Len(text) > TextLimit

\* An extracted text of n characters
TextOf(n) == [i \in 1..n |-> Digits[(i % 10) + 1]]

\* Lengths of the extracted text: short ones, and around the budget
TextLengths ==
    (0..MaxExcess) \cup ((TextLimit - MaxExcess)..(TextLimit + MaxExcess))

\* The "summary" of the oracle's JSON: missing, null, or an object that may
\* carry a text_truncated of its own
Summaries ==
    {m \in [t : {"absent", "null", "object"},
            text_truncated : {"absent", "true", "false"}] :
        m.t # "object" => m.text_truncated = "absent"}

\* The body of the oracle's response: not JSON, JSON without
\* choices[0].message.content, a content that is not JSON, a content that is
\* a JSON object
ReplyBodies ==
    {b \in [kind : {"undecodable", "no_choices", "bad_content", "object"},
            summary : Summaries] :
        b.kind # "object" => b.summary.t = "absent"}

Replies ==
    {r \in [status_code : {200, 500}, body : ReplyBodies] :
        r.status_code # 200 => r.body.kind = "undecodable"}

InitAnalyze ==
    /\ pc = "truncate"
    /\ PipelineIdle /\ ProbeIdle /\ ExtractIdle /\ HandlerIdle
    /\ \E n \in TextLengths : full_text = TextOf(n)
    /\ pdf_text = <<>>
    /\ was_truncated = FALSE
    /\ reply = <<>>
    /\ parsed_result = <<>>

\* was_truncated = len(full_text) > 8000; pdf_text = full_text[:8000]
Truncate ==
    /\ pc = "truncate"
    /\ was_truncated' = WasTruncated(full_text)
    /\ pdf_text' = Take(full_text, TextLimit)
    /\ pc' = "post"
    /\ UNCHANGED <<main_vars, probe_vars, extract_vars, full_text, reply,
                   parsed_result>>

\* response = requests.post(...) with the prompt built around pdf_text
Post ==
    /\ pc = "post"
    /\ \E r \in Replies : reply' = <<r>>
    /\ pc' = "parse"
    /\ UNCHANGED <<main_vars, probe_vars, extract_vars, full_text, pdf_text,
                   was_truncated, parsed_result>>

\* if response.status_code != 200: raise requests.RequestException
StatusFails ==
    /\ pc = "parse"
    /\ reply[1].status_code # 200
    /\ error' = "RequestException"
    /\ pc' = "analysis_raised"
    /\ UNCHANGED <<file_vars, doc_open, original_metadata, locate_vars,
                   page_vars, content_vars, doc_metadata, output, out_vars,
                   side_vars>>

\* The try block raises: JSONDecodeError and KeyError become ValueError; the
\* item assignment on a null summary is a TypeError, which is not caught.
ParseFails ==
    /\ pc = "parse"
    /\ reply[1].status_code = 200
    /\ \/ reply[1].body.kind # "object"
       \/ reply[1].body.summary.t = "null"
    /\ error' = IF reply[1].body.kind # "object" THEN "ValueError" ELSE "TypeError"
    /\ pc' = "analysis_raised"
    /\ UNCHANGED <<file_vars, doc_open, original_metadata, locate_vars,
                   page_vars, content_vars, doc_metadata, output, out_vars,
                   side_vars>>

\* parsed_result is returned with summary.text_truncated set
ParseOk ==
    /\ pc = "parse"
    /\ reply[1].status_code = 200
    /\ reply[1].body.kind = "object"
    /\ reply[1].body.summary.t # "null"
    /\ parsed_result' = << [summary |-> [text_truncated |-> was_truncated]] >>
    /\ pc' = "analyzed"
    /\ UNCHANGED <<main_vars, probe_vars, extract_vars, full_text, pdf_text,
                   was_truncated, reply>>

NextAnalyze ==
    \/ Truncate
    \/ Post
    \/ StatusFails
    \/ ParseFails
    \/ ParseOk

SpecAnalyze == InitAnalyze /\ [][NextAnalyze]_vars

\* ------------------------------------------------- extract_text_from_pdf
\* Rect.get_area()
Area(r) == IF X1(r) > X0(r) /\ Y1(r) > Y0(r)
           THEN (X1(r) - X0(r)) * (Y1(r) - Y0(r)) ELSE 0

\* line_rect & seen_rect
Intersection(r, q) ==
    <<Max2(X0(r), X0(q)), Max2(Y0(r), Y0(q)), Min2(X1(r), X1(q)), Min2(Y1(r), Y1(q))>>

\* is_overlapping of a line of bbox <<r>> (<<>>: no bbox) against seen
IsOverlapping(bbox, seen) ==
    /\ bbox # <<>>
    /\ \E q \in seen :
          /\ Intersects(bbox[1], q)
          /\ Area(bbox[1]) > 0
          /\ 2 * Area(Intersection(bbox[1], q)) > Area(bbox[1])

\* Line boxes: three that overlap, by 3/4 the neighbours and by 1/2 the
\* outer two, and one without area
LineBoxes == {<<0, 0, 4, 1>>, <<1, 0, 5, 1>>, <<2, 0, 6, 1>>, <<0, 0, 0, 1>>}

\* A line of get_text("dict", sort=True): its page, its bbox or none, and
\* whether its text is blank
TextLines ==
    [page : 1..2, bbox : {<<r>> : r \in LineBoxes} \cup {<<>>}, blank : BOOLEAN]

InitExtract ==
    /\ pc = "extract"
    /\ PipelineIdle /\ ProbeIdle /\ AnalyzeIdle /\ HandlerIdle
    /\ lines \in UNION {[1..n -> TextLines] : n \in 0..MaxLines}
    /\ \A j \in 1..(Len(lines) - 1) : lines[j].page <= lines[j + 1].page
    /\ line_no = 1
    /\ seen_positions = {}
    /\ page_text_parts = <<>>

\* seen_positions when the loop comes to line j: empty at the first line of
\* a page
SeenAt(j) ==
    IF j > 1 /\ lines[j - 1].page = lines[j].page THEN seen_positions ELSE {}

\* The loop body for one line
ExtractLine ==
    /\ pc = "extract"
    /\ line_no <= Len(lines)
    /\ LET line == lines[line_no]
           is_overlapping == IsOverlapping(line.bbox, SeenAt(line_no))
       IN  /\ seen_positions' =
                 IF line.bbox # <<>> /\ ~is_overlapping
                 THEN SeenAt(line_no) \cup {line.bbox[1]}
                 ELSE SeenAt(line_no)
           /\ page_text_parts' =
                 IF ~line.blank /\ ~is_overlapping
                 THEN Append(page_text_parts, line_no)
                 ELSE page_text_parts
    /\ line_no' = line_no + 1
    /\ UNCHANGED <<pc, main_vars, probe_vars, analyze_vars, lines>>

\* The last page is done
ExtractDone ==
    /\ pc = "extract"
    /\ line_no > Len(lines)
    /\ pc' = "extracted"
    /\ UNCHANGED <<main_vars, probe_vars, analyze_vars, extract_vars>>

NextExtract ==
    \/ ExtractLine
    \/ ExtractDone

SpecExtract == InitExtract /\ [][NextExtract]_vars

\* ---------------------------------------------- the handler of /api/process
\* Requests are served by worker processes that share UPLOAD_DIR.  The
\* handler is a coroutine whose only await is `await file.read()`: from there
\* to the end of its finally clause it runs without yielding, so a worker runs
\* that part of one request at a time, while the steps of different workers
\* interleave.
Requests == 1..MaxRequests

\* 50 * 1024 * 1024
SizeLimit == 52428800

\* filename.lower().endswith(".pdf"); str.lower is given for the letters
\* that occur
EndsWithPdf(filename) ==
    LET lower(c) == CASE c = "A" -> "a" [] c = "P" -> "p" [] c = "D" -> "d"
                      [] c = "F" -> "f" [] OTHER -> c
        name == [i \in 1..Len(filename) |-> lower(filename[i])]
        suffix == <<".", "p", "d", "f">>
    IN  /\ Len(suffix) <= Len(name)
        /\ SubSeq(name, Len(name) - Len(suffix) + 1, Len(name)) = suffix

\* Filenames of an upload: none, a text file, a PDF
Filenames == {<<>>, <<"a", ".", "t", "x", "t">>, <<"A", ".", "P", "D", "F">>}

\* Contents of an upload: their length in bytes and what fitz.open makes of
\* them ("garbage" is no PDF, "zero_pages" a PDF without pages)
Contents ==
    {[size |-> 0, kind |-> "garbage"],
     [size |-> 9, kind |-> "garbage"],
     [size |-> 9, kind |-> "zero_pages"],
     [size |-> 9, kind |-> "pdf"],
     [size |-> SizeLimit, kind |-> "pdf"],
     [size |-> SizeLimit + 1, kind |-> "pdf"]}

\* f"{timestamp}_original.pdf" and f"{timestamp}_anonymized.pdf" in UPLOAD_DIR
InputPath(timestamp) == IntStr(timestamp) \o <<"_", "original.pdf">>
OutputPath(timestamp) == IntStr(timestamp) \o <<"_", "anonymized.pdf">>

\* The except clauses of the handler, in order: the status the client gets
\* for an exception that leaves the try block.  HTTPException is none of
\* ValueError, RequestException, FileDataError.
StatusOf(exc) ==
    IF exc = "ValueError" THEN 500
    ELSE IF exc = "RequestException" THEN 502
    ELSE IF exc = "FileDataError" THEN 400
    ELSE 500

\* A request that has not arrived.  raised is the status of the
\* HTTPException a validation raised inside the try block, foreign the
\* requests whose file this one read or deleted.
NewCall ==
    [pc |-> "new", worker |-> 0, filename |-> <<>>,
     content |-> [size |-> 0, kind |-> "none"],
     timestamp |-> 0, status_code |-> 0, raised |-> <<>>, foreign |-> {}]

\* A file is created or overwritten at path
Put(path, file) ==
    [q \in DOMAIN uploads \cup {path} |-> IF q = path THEN file ELSE uploads[q]]

\* calls after request r moved to `to`, having read or deleted the files
\* at `paths`: the other requests that wrote them are recorded
Moved(r, to, status, own, paths) ==
    [calls EXCEPT ![r].pc = to, ![r].status_code = status, ![r].raised = own,
                  ![r].foreign =
                      @ \cup ({uploads[q].by : q \in paths \cap DOMAIN uploads}
                                 \ {r})]

\* Everything but the requests
rest_vars == <<pc, file_vars, doc_open, original_metadata, locate_vars, page_vars,
               content_vars, doc_metadata, output, error, out_vars, probe_vars,
               analyze_vars, extract_vars>>

InitHandler ==
    /\ pc = "handler"
    /\ PipelineIdle /\ ProbeIdle /\ AnalyzeIdle /\ ExtractIdle
    /\ clock = 0
    /\ uploads = <<>>
    /\ calls = [r \in Requests |-> NewCall]
    /\ running = [w \in 1..MaxWorkers |-> 0]

\* Lines 70-87: a worker takes the request; the filename checks raise 400
\* outside the try block; else the paths are derived from the clock.
Receive(r) ==
    /\ calls[r].pc = "new"
    /\ \E w \in 1..MaxWorkers, name \in Filenames, content \in Contents :
          /\ running[w] = 0
          /\ calls' =
                [calls EXCEPT ![r] =
                    IF name = <<>> \/ ~EndsWithPdf(name)
                    THEN [NewCall EXCEPT !.pc = "done", !.worker = w,
                                         !.filename = name, !.status_code = 400]
                    ELSE [NewCall EXCEPT !.pc = "read", !.worker = w,
                                         !.filename = name, !.content = content,
                                         !.timestamp = clock]]
    /\ UNCHANGED <<rest_vars, clock, uploads, running>>

\* Lines 91-99: content = await file.read() and the two checks of its length
ReadUpload(r) ==
    /\ calls[r].pc = "read"
    /\ running[calls[r].worker] = 0
    /\ running' = [running EXCEPT ![calls[r].worker] = r]
    /\ calls' =
          IF calls[r].content.size > SizeLimit
          THEN Moved(r, "unlink_input", StatusOf("HTTPException"), <<413>>, {})
          ELSE IF calls[r].content.size = 0
          THEN Moved(r, "unlink_input", StatusOf("HTTPException"), <<400>>, {})
          ELSE Moved(r, "write", 0, <<>>, {})
    /\ UNCHANGED <<rest_vars, clock, uploads>>

\* Lines 101-102: the upload is written to input_path
WriteInput(r) ==
    /\ calls[r].pc = "write"
    /\ uploads' = Put(InputPath(calls[r].timestamp),
                      [by |-> r, content |-> calls[r].content])
    /\ calls' = Moved(r, "verify", 0, <<>>, {})
    /\ UNCHANGED <<rest_vars, clock, running>>

\* Lines 107-114: fitz.open(input_path) and the page count; whatever is
\* raised, the HTTPException of line 110 included, becomes the HTTPException
\* of line 114.
Verify(r) ==
    /\ calls[r].pc = "verify"
    /\ LET path == InputPath(calls[r].timestamp)
       IN  calls' =
              IF path \notin DOMAIN uploads
              THEN Moved(r, "unlink_input", StatusOf("HTTPException"), <<400>>, {})
              ELSE IF uploads[path].content.kind # "pdf"
              THEN Moved(r, "unlink_input", StatusOf("HTTPException"), <<400>>,
                         {path})
              ELSE Moved(r, "anonymize", 0, <<>>, {path})
    /\ UNCHANGED <<rest_vars, clock, uploads, running>>

\* What anonymize_pdf(input_path, output_path) can do: the analyzer raises
\* ValueError without an API key, before the file is read; fitz.open raises
\* for a missing file and FileDataError for a file that is no PDF; the
\* oracle call and the processing can fail; else the output is saved.
AnonymizeOutcomes(path) ==
    {[exc |-> "ValueError", read |-> FALSE]}
        \cup (IF path \notin DOMAIN uploads
              THEN {[exc |-> "Exception", read |-> FALSE]}
              ELSE IF uploads[path].content.kind = "garbage"
              THEN {[exc |-> "FileDataError", read |-> TRUE]}
              ELSE {[exc |-> e, read |-> TRUE] :
                       e \in {"RequestException", "ValueError", "Exception"}
                              \cup (IF uploads[path].content.kind = "pdf"
                                    THEN {"none"} ELSE {})})

\* Line 119: analysis_result = anonymize_pdf(str(input_path), str(output_path))
Anonymize(r) ==
    /\ calls[r].pc = "anonymize"
    /\ LET path == InputPath(calls[r].timestamp)
       IN  \E o \in AnonymizeOutcomes(path) :
              LET touched == IF o.read THEN {path} ELSE {}
              IN  IF o.exc = "none"
                  THEN /\ uploads' = Put(OutputPath(calls[r].timestamp),
                                         [by |-> r, content |-> uploads[path].content])
                       /\ calls' = Moved(r, "encode", 0, <<>>, touched)
                  ELSE /\ calls' = Moved(r, "unlink_input", StatusOf(o.exc), <<>>,
                                         touched)
                       /\ UNCHANGED uploads
    /\ UNCHANGED <<rest_vars, clock, running>>

\* Lines 137-162: the output file is read and the response is built; a
\* missing file raises FileNotFoundError, an element that does not validate
\* ValueError.
EncodeOutput(r) ==
    /\ calls[r].pc = "encode"
    /\ LET path == OutputPath(calls[r].timestamp)
       IN  IF path \notin DOMAIN uploads
           THEN calls' = Moved(r, "unlink_input", StatusOf("FileNotFoundError"),
                               <<>>, {})
           ELSE \E valid \in BOOLEAN :
                   calls' = Moved(r, "unlink_input",
                                  IF valid THEN 200 ELSE StatusOf("ValueError"),
                                  <<>>, {path})
    /\ UNCHANGED <<rest_vars, clock, uploads, running>>

\* Lines 182-185: input_path.unlink(), FileNotFoundError passed over
UnlinkInput(r) ==
    /\ calls[r].pc = "unlink_input"
    /\ LET path == InputPath(calls[r].timestamp)
       IN  /\ uploads' = [q \in DOMAIN uploads \ {path} |-> uploads[q]]
           /\ calls' = Moved(r, "unlink_output", calls[r].status_code,
                             calls[r].raised, {path})
    /\ UNCHANGED <<rest_vars, clock, running>>

\* Lines 186-189: output_path.unlink(); the handler ends and the client is
\* answered
UnlinkOutput(r) ==
    /\ calls[r].pc = "unlink_output"
    /\ LET path == OutputPath(calls[r].timestamp)
       IN  /\ uploads' = [q \in DOMAIN uploads \ {path} |-> uploads[q]]
           /\ calls' = Moved(r, "done", calls[r].status_code,
                             calls[r].raised, {path})
    /\ running' = [running EXCEPT ![calls[r].worker] = 0]
    /\ UNCHANGED <<rest_vars, clock>>

\* A millisecond passes
Tick ==
    /\ clock < MaxClock
    /\ clock' = clock + 1
    /\ UNCHANGED <<rest_vars, uploads, calls, running>>

NextHandler ==
    \/ \E r \in Requests : Receive(r)
    \/ \E r \in Requests : ReadUpload(r)
    \/ \E r \in Requests : WriteInput(r)
    \/ \E r \in Requests : Verify(r)
    \/ \E r \in Requests : Anonymize(r)
    \/ \E r \in Requests : EncodeOutput(r)
    \/ \E r \in Requests : UnlinkInput(r)
    \/ \E r \in Requests : UnlinkOutput(r)
    \/ Tick

SpecHandler == InitHandler /\ [][NextHandler]_vars

\* ------------------------------------------------------------- properties
\* An iteration of the first pass that did not raise
LocateStep == pc = "locate" /\ pc' = "locate" /\ n_elements' = n_elements + 1

\* The 1-indexed page of an element lies in the document
InRange(e) == e.page.t = "int" /\ e.page.i \in 1..Len(doc)

\* needle renders somewhere in text
Occurs(text, needle) ==
    /\ needle # <<>>
    /\ \E i \in 1..Len(text) :
          i + Len(needle) - 1 <= Len(text)
          /\ \A k \in 1..Len(needle) : text[i + k - 1] = needle[k]

\* The number of texts drawn on page p for the entry of key k
TimesDrawn(ins, p, k) == Cardinality({j \in 1..Len(ins[p]) : ins[p][j].key = k})

\* C1: after anonymize_pdf returns, every entry of text_positions has had its
\* rectangle blanked on the page it was located on and its replacement drawn
\* there exactly once, in the document that was saved.
C1_EveryOccurrenceRedacted ==
    pc = "returned" =>
        /\ output # <<>>
        /\ \A j \in 1..Len(text_positions) :
              LET e == text_positions[j]
                  saved == output[1]
              IN  /\ e.rect \in saved.blanked[e.on_page]
                  /\ TimesDrawn(saved.inserted, e.on_page, e.key) = 1
                  /\ \A k \in 1..Len(saved.inserted[e.on_page]) :
                        saved.inserted[e.on_page][k].key = e.key
                            => saved.inserted[e.on_page][k].text = e.replacement

\* C2: once a text is drawn on a page, every redaction rectangle of the page
\* has been added and the redactions applied, and no blanking step (adding an
\* annotation, applying the redactions) touches that page afterwards.
C2_PageBlankedWhenDrawn ==
    \A p \in 1..Len(doc) :
        inserted[p] # <<>> =>
            /\ applied[p] >= 1
            /\ annots[p] = <<>>
            /\ \A j \in 1..Len(text_positions) :
                  OnPage(text_positions[j], p - 1)
                      => text_positions[j].rect \in blanked[p]

C2_NoBlankingAfterDrawing ==
    \A p \in 1..Len(doc) :
        inserted[p] # <<>> =>
            /\ annots'[p] = annots[p]
            /\ blanked'[p] = blanked[p]
            /\ applied'[p] = applied[p]

C2_BlankingBeforeInsertion ==
    [](C2_PageBlankedWhenDrawn) /\ [][C2_NoBlankingAfterDrawing]_vars

C2_Witness ==
    /\ pc = "insert"
    /\ page_num = 1
    /\ inserted[1] # <<>>
    /\ inserted[2] # <<>>
    /\ Cardinality(blanked[2]) >= 2

\* C3: an element whose page is outside [1, page_count] adds no entry to
\* text_positions, no entry to not_found_elements, and no page is searched
\* for it.
C3_OutOfRangeSkipped ==
    [][(LocateStep /\ ~InRange(element)')
        => /\ text_positions' = text_positions
           /\ not_found_elements' = not_found_elements
           /\ searched' = {}]_vars

\* C4: an element with an in-range page adds exactly one record, with its
\* type, value, page and replacement, to not_found_elements when its full
\* value does not render on its page, and none when it does, whatever the
\* searches of its tokens found.
C4_NotFoundIffFullValueAbsent ==
    [][(LocateStep /\ InRange(element)')
        => LET e == element'
               replacement == IF e.replacement.t = "absent" THEN PLACEHOLDER
                              ELSE e.replacement.s
           IN  IF Occurs(doc[e.page.i].text, e.value.s)
               THEN not_found_elements' = not_found_elements
               ELSE not_found_elements' =
                       not_found_elements \o
                       << [type |-> e.type.s, value |-> e.value.s,
                           page |-> e.page.i, replacement |-> replacement] >>]_vars

\* a token of the element matched although its full value is absent
C4_Witness ==
    /\ pc = "locate"
    /\ n_elements = 1
    /\ InRange(element)
    /\ Len(not_found_elements) = 1
    /\ not_found_elements[1].value = ValueAB
    /\ text_positions # <<>>

\* The tokens of s: the maximal runs without whitespace, as <<first, last>>
TokenSpans(s) ==
    {t \in (1..Len(s)) \X (1..Len(s)) :
        /\ t[1] <= t[2]
        /\ \A k \in t[1]..t[2] : s[k] # SP
        /\ (t[1] = 1 \/ s[t[1] - 1] = SP)
        /\ (t[2] = Len(s) \/ s[t[2] + 1] = SP)}

FirstToken(s) ==
    LET t == CHOOSE t \in TokenSpans(s) : \A u \in TokenSpans(s) : t[1] <= u[1]
    IN  SubSeq(s, t[1], t[2])

LastToken(s) ==
    LET t == CHOOSE t \in TokenSpans(s) : \A u \in TokenSpans(s) : t[1] >= u[1]
    IN  SubSeq(s, t[1], t[2])

\* C5: elements_to_search starts with the full (value, replacement) pair; the
\* pairs of the first tokens and of the last tokens follow if and only if the
\* type is "Person Name" or "Client Name" and value and replacement both have
\* at least two tokens; otherwise the full pair is alone.
C5_SearchPairs ==
    pc = "pairs_done" =>
        LET value == element.value.s
            replacement == IF element.replacement.t = "absent" THEN PLACEHOLDER
                           ELSE element.replacement.s
            is_name == /\ element.type.t = "str"
                       /\ element.type.s \in {"Person Name", "Client Name"}
        IN  /\ elements_to_search[1] = <<value, replacement>>
            /\ IF is_name /\ Cardinality(TokenSpans(value)) >= 2
                          /\ Cardinality(TokenSpans(replacement)) >= 2
               THEN /\ Len(elements_to_search) = 3
                    /\ elements_to_search[2] =
                          <<FirstToken(value), FirstToken(replacement)>>
                    /\ elements_to_search[3] =
                          <<LastToken(value), LastToken(replacement)>>
               ELSE Len(elements_to_search) = 1

C5_Witness ==
    /\ pc = "pairs_done"
    /\ element.type = JStr("Client Name")
    /\ element.value = JStr(Str_a__b)
    /\ element.replacement = JStr(Str_a_b_sp)
    /\ Len(elements_to_search) = 3

\* C6: the metadata of the saved document equals the metadata of the input on
\* every field but author, and its author is the attribution string.
C6_MetadataPreserved ==
    output # <<>> =>
        /\ \A k \in MetaKeys \ {"author"} :
              output[1].metadata[k] = MetaGet(in_metadata, k)
        /\ output[1].metadata["author"] = ATTRIBUTION

C6_Witness ==
    /\ output # <<>>
    /\ MetaGet(in_metadata, "title") = "Test Document"
    /\ MetaGet(in_metadata, "author") = "Original Author"
    /\ output[1].metadata["title"] = "Test Document"

\* C7: no entry of text_positions has an empty replacement and no empty text
\* is drawn on a page.
C7_ReplacementNeverEmpty ==
    /\ \A j \in 1..Len(text_positions) : text_positions[j].replacement # <<>>
    /\ \A p \in 1..Len(doc) :
          \A j \in 1..Len(inserted[p]) : inserted[p][j].text # <<>>

\* C8: whatever steps of the font chain raise, no error leaves anonymize_pdf
\* because of them and, once the second pass is over, the replacement of
\* every entry of text_positions has been drawn exactly once.
C8_EveryOccurrenceDrawnOnce ==
    /\ fails # {} => (pc = "insert" /\ error = "none")
    /\ pc \in {"stats", "save", "close", "returned"} =>
          \A j \in 1..Len(text_positions) :
              TimesDrawn(inserted, text_positions[j].on_page,
                         text_positions[j].key) = 1

\* The font chain alone: an iteration of the insertion loop for an entry of
\* the page in progress draws its replacement once, whatever steps raise.
ChainDrawsOnce ==
    [][(pc = "insert" /\ pc' = "insert" /\ cursor' = cursor + 1
        /\ OnPage(text_positions[cursor], page_num))
        => /\ Len(inserted'[page_num + 1]) = Len(inserted[page_num + 1]) + 1
           /\ inserted'[page_num + 1][Len(inserted'[page_num + 1])].text
                 = text_positions[cursor].replacement
           /\ error' = "none"]_vars

\* Both phases of page p are over
PageDone(p) ==
    /\ applied[p] >= 1
    /\ annots[p] = <<>>
    /\ \A j \in 1..Len(text_positions) :
          OnPage(text_positions[j], p - 1)
              => /\ text_positions[j].rect \in blanked[p]
                 /\ TimesDrawn(inserted, p, text_positions[j].key) = 1

\* C9: the document is saved in one step, taken when every page has
\* completed blanking and insertion; the step leaves the pages alone and
\* nothing changes the pages or the file afterwards.
C9_SavedWhenPagesDone ==
    output # <<>> => \A p \in 1..Len(doc) : PageDone(p)

C9_SaveStep ==
    /\ (output = <<>> /\ output' # <<>>)
          => /\ pc = "save"
             /\ output' = <<Snapshot>>
             /\ UNCHANGED content_vars
    /\ output # <<>> => UNCHANGED <<content_vars, output>>

C9_SaveAfterAllPages ==
    [](C9_SavedWhenPagesDone) /\ [][C9_SaveStep]_vars

C9_Witness ==
    /\ pc = "returned"
    /\ output # <<>>
    /\ Len(doc) = 2
    /\ inserted[1] # <<>>
    /\ inserted[2] # <<>>

OracleErrors == {"RequestException", "ValueError"}

\* no page of the document has been touched
Pristine ==
    \A p \in 1..Len(doc) :
        annots[p] = <<>> /\ blanked[p] = {} /\ inserted[p] = <<>> /\ applied[p] = 0

\* C10: a file is written only when the analysis succeeded and every page is
\* done; when analyze_document raises, the document is never opened nor
\* touched; when anything raises, no file exists.
C10_OutputOnlyOnSuccess ==
    /\ error \in OracleErrors => (~doc_open /\ Pristine /\ output = <<>>)
    /\ error # "none" => (pc \in {"raised", "responded"} /\ output = <<>>)
    /\ output # <<>> => (error = "none" /\ \A p \in 1..Len(doc) : applied[p] = 1)

C10_OpenedAfterAnalysis ==
    /\ (~doc_open /\ doc_open') => (pc = "open" /\ error = "none")
    /\ (pc # "open" /\ pc' = "open") => (pc = "analyze" /\ error' = "none")
    /\ error # "none" =>
          UNCHANGED <<error, file_vars, doc_open, original_metadata,
                      locate_vars, page_vars, content_vars, doc_metadata,
                      output, summary>>

DefaultsTaken ==
    (pc = "locate" /\ n_elements > 0) =>
        /\ elements_to_search[1][1]
              = (IF element.value.t = "absent" THEN <<>> ELSE element.value.s)
        /\ elements_to_search[1][2]
              = (IF element.replacement.t = "absent" THEN PLACEHOLDER
                 ELSE element.replacement.s)
        /\ element.page.t = "absent" => searched = {1}
        /\ (element.type.t = "absent" /\ element.page.t = "absent"
            /\ not_found_elements # <<>>)
              => /\ not_found_elements[Len(not_found_elements)].type = "Unknown"
                 /\ not_found_elements[Len(not_found_elements)].page = 1

\* The part of C11 that is about anonymize_pdf alone: the defaults are taken,
\* no element makes it raise, it returns the elements it was given.
C11_AnonymizeTolerates ==
    /\ DefaultsTaken
    /\ error \in {"none", "Exception"} \cup OracleErrors
    /\ pc = "returned" =>
          summary[1].anonymization_summary.total_elements_found
              = Len(sensitive_elements)

\* C11: an element lacking any of type, value, replacement, page, confidence
\* raises no error, the defaults "Unknown", "XXXXX" and page 1 are taken, and
\* both anonymize_pdf and the answer of /api/process carry the element.
C11_MissingFieldsTolerated ==
    /\ C11_AnonymizeTolerates
    /\ (pc = "responded" /\ error = "none") =>
          /\ response[1].status_code = 200
          /\ response[1].entities = sensitive_elements

\* The run the size probe is given, its reported size and visual height
SizedSpan == text_dict[1].lines[1].spans[1]
ReportedSize == IF SizedSpan.size.t = "absent" THEN 10 ELSE SizedSpan.size.i
VisualHeight == SizedSpan.bbox[4] - SizedSpan.bbox[2]

\* C16: the probed size is the reported size when the visual height is at
\* most 1.5 x the reported size and 0.85 x the visual height when it is
\* larger; reported 10 and height 20 give 17, height 15 gives 10.  Sizes are
\* in hundredths of a point.
C16_ProbedSize ==
    pc = "probed" =>
        /\ 10 * VisualHeight <= 15 * ReportedSize
              => span_info.size = 100 * ReportedSize
        /\ 10 * VisualHeight > 15 * ReportedSize
              => span_info.size = 85 * VisualHeight
        /\ (ReportedSize = 10 /\ VisualHeight = 20) => span_info.size = 1700
        /\ (ReportedSize = 10 /\ VisualHeight = 15) => span_info.size = 1000

\* a run of reported size 10 and height exactly 15 was probed
C16_Witness ==
    /\ pc = "probed"
    /\ SizedSpan.size = JInt(10)
    /\ VisualHeight = 15
    /\ span_info.size = 1000

\* The runs of text_dict whose bbox intersects rect, as <<block, line, span>>
\* indices
Hits ==
    UNION {UNION {{<<b, l, k>> :
                     k \in {n \in 1..Len(text_dict[b].lines[l].spans) :
                              Intersects(text_dict[b].lines[l].spans[n].bbox, rect)}} :
                  l \in 1..Len(text_dict[b].lines)} :
           b \in {n \in 1..Len(text_dict) : text_dict[n].has_lines}}

\* t comes before u in block/line/span order
Before(t, u) ==
    \/ t[1] < u[1]
    \/ t[1] = u[1] /\ t[2] < u[2]
    \/ t[1] = u[1] /\ t[2] = u[2] /\ t[3] < u[3]

RunAt(t) == text_dict[t[1]].lines[t[2]].spans[t[3]]

\* The style a run gives
StyleOf(span) ==
    [font  |-> IF span.font.t = "absent" THEN HELV ELSE span.font.s,
     size  |-> ActualSize(span),
     color |-> IF span.color.t = "absent" THEN 0 ELSE span.color.i]

\* C18: the style probed for a matched rectangle is that of the first run,
\* in block/line/span order, whose bbox intersects the rectangle; when no
\* run intersects it is {font "helv", size 10, color 0}; no error is raised.
C18_StyleOfFirstRun ==
    pc = "probed" =>
        /\ error = "none"
        /\ Hits = {} => span_info = [font |-> HELV, size |-> 1000, color |-> 0]
        /\ \A t \in Hits :
              (\A u \in Hits : u = t \/ Before(t, u)) => span_info = StyleOf(RunAt(t))

\* two runs of different styles intersect the rectangle, in different lines of
\* one block, after an image block
C18_Witness ==
    /\ pc = "probed"
    /\ Len(text_dict) = 2
    /\ ~text_dict[1].has_lines
    /\ \E t \in Hits, u \in Hits :
          /\ t[1] = u[1] /\ t[2] < u[2]
          /\ StyleOf(RunAt(t)) # StyleOf(RunAt(u))
          /\ span_info = StyleOf(RunAt(t))

\* C12: the text placed in the prompt is the first min(len, 8000) characters
\* of the extracted text, and a result that analyze_document returns has
\* summary.text_truncated true exactly when the extracted text is longer
\* than 8000 characters, whatever summary the oracle sent.
C12_TextBudget ==
    /\ pc # "truncate" =>
          /\ Len(pdf_text) <= 8000
          /\ Len(pdf_text) = Min2(Len(full_text), 8000)
          /\ \A i \in 1..Len(pdf_text) : pdf_text[i] = full_text[i]
    /\ parsed_result # <<>> =>
          (parsed_result[1].summary.text_truncated <=> Len(full_text) > 8000)

\* a text of 8001 characters was analysed and the oracle sent no summary
C12_Witness ==
    /\ pc = "analyzed"
    /\ Len(full_text) = 8001
    /\ Len(pdf_text) = 8000
    /\ reply[1].body.summary.t = "absent"
    /\ parsed_result[1].summary.text_truncated

\* Line j went into the output
Emitted(j) == \E k \in 1..Len(page_text_parts) : page_text_parts[k] = j

\* More than half of the area of line j lies in the bbox of line i
MostlyIn(j, i) ==
    /\ lines[j].bbox # <<>> /\ lines[i].bbox # <<>>
    /\ 2 * Area(Intersection(lines[j].bbox[1], lines[i].bbox[1]))
          > Area(lines[j].bbox[1])

RECURSIVE Accepted(_)
\* Line j was not found overlapping: none of the accepted lines of its page
\* before it holds more than half of it
Accepted(j) ==
    ~\E i \in 1..(j - 1) :
        lines[i].page = lines[j].page /\ MostlyIn(j, i) /\ Accepted(i)

\* What the loop does: a non-blank line is suppressed exactly when more than
\* half of it lies in an earlier line of the page that was not itself found
\* overlapping, blank or not.
SuppressedByAccepted ==
    \A j \in 1..(line_no - 1) :
        ~lines[j].blank => (~Emitted(j) <=> ~Accepted(j))

\* C15: a non-blank line is suppressed exactly when more than half of its
\* bbox area lies in the bbox of an earlier line of the same page that was
\* emitted; so a suppressed line suppresses nothing, and a line without area
\* or without bbox is never suppressed.
C15_SuppressedByEmitted ==
    \A j \in 1..(line_no - 1) :
        ~lines[j].blank =>
            (~Emitted(j) <=>
                \E i \in 1..(j - 1) :
                    lines[i].page = lines[j].page /\ Emitted(i) /\ MostlyIn(j, i))

RECURSIVE SumOver(_, _)
\* The sum of f over the keys of S
SumOver(f, S) ==
    IF S = {} THEN 0
    ELSE LET x == CHOOSE x \in S : TRUE IN f[x] + SumOver(f, S \ {x})

\* The page index the first pass computes for an element, and whether it
\* passes the test of the first pass
PageNumOf(e) == (IF e.page.t = "absent" THEN 1 ELSE e.page.i) - 1
Passes(e) == PageNumOf(e) < Len(doc)

\* Every match of every search pair of every element received, as
\* <<page_num, searched text, x0, y0>>
AllMatches ==
    UNION {UNION {LET e == sensitive_elements[j]
                      text == SearchPairs(e)[i][1]
                      found == SearchFor(doc[PageIndex(PageNumOf(e), Len(doc))], text)
                  IN  {<<PageNumOf(e), text, X0(found[n]), Y0(found[n])>> :
                          n \in 1..Len(found)} :
                  i \in 1..Len(SearchPairs(sensitive_elements[j]))} :
           j \in {n \in 1..Len(sensitive_elements) : Passes(sensitive_elements[n])}}

\* The elements received whose full value does not render on their page
Unfound ==
    {j \in 1..Len(sensitive_elements) :
        /\ Passes(sensitive_elements[j])
        /\ ~Occurs(doc[PageIndex(PageNumOf(sensitive_elements[j]), Len(doc))].text,
                   Get(sensitive_elements[j], "value", JStr(<<>>)).s)}

\* C13: in the summary of a successful run total_elements_found and
\* ai_detected_count are the number of elements received, the values of
\* elements_by_type sum to it, total_replacements and actually_found_count
\* are the number of distinct matched occurrences, not_found_count is the
\* number of not-found records, and not_found_in_pdf is present exactly when
\* not_found_count > 0.
C13_SummaryCounts ==
    summary # <<>> =>
        LET a == summary[1].anonymization_summary
        IN  /\ a.total_elements_found = n_elements
            /\ a.ai_detected_count = n_elements
            /\ SumOver(a.elements_by_type, DOMAIN a.elements_by_type) = n_elements
            /\ a.total_replacements = Cardinality(AllMatches)
            /\ a.actually_found_count = Cardinality(AllMatches)
            /\ a.not_found_count = Cardinality(Unfound)
            /\ a.not_found_count = Len(not_found_elements)
            /\ summary[1].not_found_in_pdf # <<>> <=> a.not_found_count > 0
            /\ a.not_found_count > 0
                  => summary[1].not_found_in_pdf = <<not_found_elements>>

\* a run returned with two elements of different types, one of them not found
C13_Witness ==
    /\ pc = "returned"
    /\ summary # <<>>
    /\ summary[1].anonymization_summary.total_elements_found = 2
    /\ Cardinality(DOMAIN summary[1].anonymization_summary.elements_by_type) = 2
    /\ summary[1].anonymization_summary.not_found_count = 1
    /\ summary[1].anonymization_summary.total_replacements >= 2

\* Every match of the elements received has its entry, so a text found at
\* two positions of a page has two
EveryMatchStored ==
    \A m \in AllMatches :
        \E j \in 1..Len(text_positions) :
            /\ text_positions[j].key = Key(m[1], m[2], <<m[3], m[4], 0, 0>>)
            /\ text_positions[j].search_text = m[2]
            /\ text_positions[j].on_page = PageIndex(m[1], Len(doc))
            /\ X0(text_positions[j].rect) = m[3]
            /\ Y0(text_positions[j].rect) = m[4]

\* What the dictionary gives: one entry per key, and every match stored
OneEntryPerKey ==
    /\ \A j \in 1..Len(text_positions), k \in 1..Len(text_positions) :
          j # k => text_positions[j].key # text_positions[k].key
    /\ EveryMatchStored

\* C14: there is at most one entry per (page, searched text, x0, y0), no two
\* entries of the same page have the same top-left corner, and a text found
\* at two positions of a page has two entries.
C14_OnePerVisualMatch ==
    /\ \A j \in 1..Len(text_positions), k \in 1..Len(text_positions) :
          (j # k /\ text_positions[j].on_page = text_positions[k].on_page
                 /\ text_positions[j].search_text = text_positions[k].search_text)
              => \/ X0(text_positions[j].rect) # X0(text_positions[k].rect)
                 \/ Y0(text_positions[j].rect) # Y0(text_positions[k].rect)
    /\ \A j \in 1..Len(text_positions), k \in 1..Len(text_positions) :
          (j # k /\ text_positions[j].on_page = text_positions[k].on_page)
              => \/ X0(text_positions[j].rect) # X0(text_positions[k].rect)
                 \/ Y0(text_positions[j].rect) # Y0(text_positions[k].rect)
    /\ EveryMatchStored

\* The place of a step in the chain
Rank(step) == CHOOSE n \in 1..6 : <<"a", "b", "c", "d", "e", "f">>[n] = step

\* An iteration of the insertion loop for an entry of the page in progress
DrawStep ==
    /\ pc = "insert" /\ pc' = "insert" /\ cursor' = cursor + 1
    /\ OnPage(text_positions[cursor], page_num)

\* The chain stops at the first step that succeeds
EarliestStepDraws ==
    DrawStep =>
        LET font == text_positions[cursor].span_info.font
            applicable(s) == s # "a" \/ font \in DOMAIN font_map
            drawn == inserted'[page_num + 1][Len(inserted'[page_num + 1])]
        IN  /\ drawn_by' \in {"a", "b", "c", "d", "e", "f"}
            /\ applicable(drawn_by')
            /\ drawn_by' \notin fails'
            /\ \A s \in {"a", "b", "c", "d", "e"} :
                  /\ (Rank(s) < Rank(drawn_by') /\ applicable(s)) => s \in fails'
                  /\ Rank(s) > Rank(drawn_by') => s \notin fails'
                  /\ ~applicable(s) => s \notin fails'
            /\ drawn_by' = "f" =>
                  \A s \in {"a", "b", "c", "d", "e"} : s \in fails' \/ ~applicable(s)
            /\ Len(inserted'[page_num + 1]) = Len(inserted[page_num + 1]) + 1
            /\ drawn.fontname = (IF drawn_by' = "a" THEN <<font_map[font]>> ELSE <<>>)
            /\ FontOf(font, drawn_by').name =
                  (CASE drawn_by' = "b" -> font
                     [] drawn_by' = "c" -> RemoveDash(font)
                     [] drawn_by' = "d" -> HELV
                     [] drawn_by' = "e" -> TIMES_ROMAN
                     [] OTHER -> <<>>)

\* C17: a replacement is drawn by the earliest step of (a) the page's font of
\* the probed name, (b) the font of that name, (c) the name without hyphens,
\* (d) "helv", (e) "Times-Roman", (f) the built-in font, that succeeds; no
\* step after it is attempted, and (f) draws only when (a)-(e) each raised
\* or did not apply.
C17_EarliestStepDraws == [][EarliestStepDraws]_vars

\* every named step raised and the built-in font drew the text
C17_Witness ==
    /\ pc = "insert"
    /\ drawn_by = "f"
    /\ fails = {"a", "b", "c", "d", "e"}

\* The font table of a page is read
FontsReadStep == fonts_read' # fonts_read

\* The table is read at most once per page, is left alone while the
\* replacements of the page are inserted, and a replacement is drawn with
\* the table read from its own page
FontTablePerPage ==
    /\ \A p \in 1..Len(doc) : fonts_read'[p] <= 1
    /\ FontsReadStep =>
          /\ fonts_read' = [fonts_read EXCEPT ![page_num + 1] = 1]
          /\ font_map' = FontMap(doc[page_num + 1].fonts)
          /\ inserted[page_num + 1] = <<>>
    /\ (pc = "insert" /\ pc' = "insert") =>
          (font_map' = font_map /\ fonts_read' = fonts_read)
    /\ (font_map' # font_map /\ pc' # "raised") => FontsReadStep
    /\ DrawStep =>
          /\ fonts_read[page_num + 1] = 1
          /\ font_map = FontMap(doc[page_num + 1].fonts)

\* C19: the font table of a page is read once per page, before the
\* redactions of that page are applied, is neither modified nor read again
\* while the replacements of the page are inserted, and is not used for
\* another page.
C19_FontTableBeforeRedaction ==
    [][FontTablePerPage
       /\ (FontsReadStep => applied[page_num + 1] = 0)]_vars

\* C19 as the code has it: the font table of a page is read once per page,
\* after the redactions of that page are applied and before its first
\* replacement is inserted, is neither modified nor read again while the
\* replacements of the page are inserted, and is not used for another page.
C19_FontTableAfterRedaction ==
    [][FontTablePerPage
       /\ (FontsReadStep =>
             (applied[page_num + 1] = 1 /\ annots[page_num + 1] = <<>>))]_vars

\* the second page of a document is drawn on with its own font table, the
\* first page having none
C19_Witness ==
    /\ pc = "insert"
    /\ page_num = 1
    /\ fonts_read = <<1, 1>>
    /\ doc[1].fonts # doc[2].fonts
    /\ font_map = FontMap(doc[2].fonts)
    /\ inserted[2] # <<>>
    /\ blanked[2] # {}

\* The text the draw step at hand appends to its page
LastDrawn == inserted'[page_num + 1][Len(inserted'[page_num + 1])]

\* The text is drawn with the probed size at <<x0, y0 + 0.8 x size>> (y in
\* thousandths of a point, sizes in hundredths)
SizeAndPointKept ==
    DrawStep =>
        LET entry == text_positions[cursor]
        IN  /\ LastDrawn.text = entry.replacement
            /\ LastDrawn.fontsize = entry.span_info.size
            /\ LastDrawn.point[1] = X0(entry.rect)
            /\ 10 * LastDrawn.point[2]
                  = 10000 * Y0(entry.rect) + 80 * entry.span_info.size

\* The color a text is rendered in: the color given to insert_text, black (0)
\* for a TextWriter, which is constructed and written without a color
RenderedColor(drawn) == IF drawn.color = <<>> THEN 0 ELSE drawn.color[1]

\* What the code keeps of the style: the size and the point on both paths,
\* the color on the path of the page's font only
C20_ColorKeptByPageFontOnly ==
    [][SizeAndPointKept
       /\ (DrawStep =>
             LastDrawn.color = (IF drawn_by' = "a"
                                THEN <<text_positions[cursor].span_info.color>>
                                ELSE <<>>))]_vars

\* C20: every replacement is drawn with the color and the corrected size
\* probed for its occurrence, at <<x0, y0 + 0.8 x size>> of its rectangle,
\* by whichever step of the font chain draws it.
C20_StyleKeptOnEveryPath ==
    [][SizeAndPointKept
       /\ (DrawStep =>
             RenderedColor(LastDrawn) = text_positions[cursor].span_info.color)]_vars

\* ---------------------------------------------------------------------- C21
\* The entries of text_positions whose match lies on page p (1-based)
LocatedOn(p) ==
    {j \in 1..Len(text_positions) : text_positions[j].on_page = p}

\* Page p carries nothing but what its own matches put there: every
\* annotation and every blanked rectangle is the rectangle of a match of
\* page p, and every text drawn is the replacement of a match of page p.
OwnContentOnly(p) ==
    /\ \A j \in 1..Len(annots[p]) :
          \E k \in LocatedOn(p) : text_positions[k].rect = annots[p][j]
    /\ \A r \in blanked[p] :
          \E k \in LocatedOn(p) : text_positions[k].rect = r
    /\ \A j \in 1..Len(inserted[p]) :
          \E k \in LocatedOn(p) :
              /\ text_positions[k].key = inserted[p][j].key
              /\ text_positions[k].replacement = inserted[p][j].text

\* C21: while anonymize_pdf runs without an error, every page carries
\* redaction rectangles and replacement texts only for the matches located on
\* that page, so a page without a match carries none; and a step of the second
\* pass changes the content of the page being processed only.  Checked on a
\* document of LongPages pages, where the 0-based page numbers 1 and
\* LongPages - 1 begin with the same digit.
C21_OwnPageOnly ==
    error = "none" => \A p \in 1..Len(doc) : OwnContentOnly(p)

C21_OtherPagesUntouched ==
    [][\A p \in 1..Len(doc) :
          p # page_num + 1 =>
              /\ annots'[p] = annots[p]
              /\ blanked'[p] = blanked[p]
              /\ inserted'[p] = inserted[p]]_vars

\* Matches of page 2 and of the last page were both drawn, each on its page,
\* and the first page, which has no match, is empty
C21_Witness ==
    /\ pc = "save"
    /\ Len(doc) >= 10
    /\ LocatedOn(2) # {} /\ LocatedOn(Len(doc)) # {}
    /\ Len(inserted[2]) = 1 /\ blanked[2] # {}
    /\ Len(inserted[Len(doc)]) = 1 /\ blanked[Len(doc)] # {}
    /\ LocatedOn(1) = {} /\ inserted[1] = <<>> /\ blanked[1] = {}

\* ---------------------------------------------------------------------- C24
\* Every match of every search pair of every element received, in the order
\* of the first pass: element j, pair i, the 0-based page number used for the
\* key, the page the match lies on, the text searched, the corner of the
\* match and the replacement of the pair
Produced ==
    UNION {UNION {LET e == sensitive_elements[j]
                      pair == SearchPairs(e)[i]
                      on_page == PageIndex(PageNumOf(e), Len(doc))
                      found == SearchFor(doc[on_page], pair[1])
                  IN  {[j |-> j, i |-> i, num |-> PageNumOf(e), page |-> on_page,
                        text |-> pair[1], x0 |-> X0(found[n]), y0 |-> Y0(found[n]),
                        rect |-> found[n], replacement |-> pair[2]] :
                          n \in 1..Len(found)} :
                  i \in 1..Len(SearchPairs(sensitive_elements[j]))} :
           j \in {n \in 1..Len(sensitive_elements) : Passes(sensitive_elements[n])}}

\* x is the last of the matches C in the order of the first pass
LastOf(x, C) ==
    x \in C /\ \A y \in C : y.j < x.j \/ (y.j = x.j /\ y.i <= x.i)

\* The second pass is over and nothing was raised
AllPagesDone == error = "none" /\ pc \in {"stats", "save", "close", "returned"}

\* The texts drawn on page p for the entries K of text_positions
DrawnFor(p, K) ==
    {n \in 1..Len(inserted[p]) :
        \E k \in K : inserted[p][n].key = text_positions[k].key}

\* The matches stored under one key leave one entry, with the replacement of
\* the last of them and the style probed at the rectangle; on a page of the
\* second pass the rectangle is blanked and one replacement is drawn.
LastPairWinsPerKey ==
    AllPagesDone =>
        \A m \in Produced :
            LET C == {y \in Produced : /\ y.num = m.num /\ y.text = m.text
                                       /\ y.x0 = m.x0 /\ y.y0 = m.y0}
                K == {k \in 1..Len(text_positions) :
                         text_positions[k].key = Key(m.num, m.text, m.rect)}
            IN  /\ Cardinality(K) = 1
                /\ \A k \in K, x \in C :
                      LastOf(x, C) =>
                          /\ text_positions[k].replacement = x.replacement
                          /\ text_positions[k].rect = x.rect
                          /\ text_positions[k].span_info = SpanInfo(doc[m.page], x.rect)
                /\ m.num >= 0 =>
                      /\ m.rect \in blanked[m.page]
                      /\ Cardinality(DrawnFor(m.page, K)) = 1
                      /\ \A n \in DrawnFor(m.page, K), x \in C :
                            LastOf(x, C) => inserted[m.page][n].text = x.replacement

\* C24: when the second pass is over, the matches of one (page, searched
\* text, x0, y0) have left a single entry, which carries the replacement and
\* the style of the pair processed last; its rectangle is blanked and exactly
\* one replacement, that of the last pair, is drawn for it on that page.
C24_LastPairWins ==
    AllPagesDone =>
        \A m \in Produced :
            LET C == {y \in Produced : /\ y.page = m.page /\ y.text = m.text
                                       /\ y.x0 = m.x0 /\ y.y0 = m.y0}
                K == {k \in 1..Len(text_positions) :
                         /\ text_positions[k].on_page = m.page
                         /\ text_positions[k].search_text = m.text
                         /\ X0(text_positions[k].rect) = m.x0
                         /\ Y0(text_positions[k].rect) = m.y0}
            IN  /\ Cardinality(K) = 1
                /\ \A k \in K, x \in C :
                      LastOf(x, C) =>
                          /\ text_positions[k].replacement = x.replacement
                          /\ text_positions[k].span_info = SpanInfo(doc[m.page], x.rect)
                /\ m.rect \in blanked[m.page]
                /\ Cardinality(DrawnFor(m.page, K)) = 1
                /\ \A n \in DrawnFor(m.page, K), x \in C :
                      LastOf(x, C) => inserted[m.page][n].text = x.replacement

\* Two pairs with different replacements met at one key of an in-range page
C24_Collision ==
    /\ AllPagesDone
    /\ \E m \in Produced, y \in Produced :
          /\ m.num >= 0 /\ y.num = m.num /\ y.text = m.text
          /\ y.x0 = m.x0 /\ y.y0 = m.y0
          /\ y.replacement # m.replacement

\* ---------------------------------------------------------------------- C22
\* The requests that were answered after a validation of the try block
\* raised its HTTPException
Rejected == {r \in Requests : calls[r].pc = "done" /\ calls[r].raised # <<>>}

\* What the handler does with them: each is answered 500, whatever status
\* its HTTPException carried; only the filename checks, which are outside the
\* try block, are answered 400.
ValidationAnswered500 ==
    /\ \A r \in Rejected : calls[r].status_code = 500
    /\ \A r \in Requests :
          (calls[r].pc = "done" /\ ~EndsWithPdf(calls[r].filename))
              => calls[r].status_code = 400

FilesOf(r) == {path \in DOMAIN uploads : uploads[path].by = r}

\* A request that was answered has left no file behind
NoFileLeftBehind ==
    \A r \in Requests : calls[r].pc = "done" => FilesOf(r) = {}

\* A request reads or deletes the file of another one only when the two run
\* on different workers and took the same timestamp
ForeignOnlyAcrossWorkers ==
    \A r \in Requests : \A q \in calls[r].foreign :
        /\ q # r
        /\ calls[q].worker # calls[r].worker
        /\ calls[q].timestamp = calls[r].timestamp

\* C23: once a request that passed the filename checks has been answered,
\* none of its temporary files exists, whatever the outcome; and no request
\* reads or deletes a temporary file written by another request, also when
\* two requests take the same timestamp.
C23_TempFilesIsolated ==
    /\ NoFileLeftBehind
    /\ \A r \in Requests : calls[r].foreign = {}
====
